---- MODULE Spec2Model ----
(***************************************************************************)
(* A model of murjs: the virtual-node differ (src/vdom.js), the patcher    *)
(* that applies patches to a live document tree (src/render.js), the       *)
(* reactive store and effect scheduler (reactive.js) and mount (mount.js). *)
(*                                                                         *)
(* JavaScript values are modelled as records:                              *)
(*   - a vnode is [type, props, children, text]; props is the sequence of  *)
(*     [key, value] pairs in the object's insertion order (the order of    *)
(*     `for (key in props)`); an absent vnode (undefined) is NoVNode;      *)
(*   - a prop value is Undefined, NullVal, Str(s), Obj(ref, m) or Fn(ref); *)
(*     objects and functions carry a reference, so that === on them is     *)
(*     identity;                                                           *)
(*   - array indices are 0-based as in the source; TLA+ sequences are      *)
(*     1-based, so children[i] of the source is At(children, i).           *)
(***************************************************************************)
EXTENDS Integers, Sequences, FiniteSets, TLC

----------------------------------------------------------------------------
(* JavaScript values *)

Undefined == [t |-> "undefined"]
NullVal == [t |-> "null"]
Str(s) == [t |-> "string", s |-> s]
Obj(ref, m) == [t |-> "object", ref |-> ref, m |-> m]
Fn(ref) == [t |-> "function", ref |-> ref]

Num(n) == [t |-> "number", n |-> n]
Bool(b) == [t |-> "boolean", b |-> b]
Arr(items) == [t |-> "array", items |-> items]

\* String(n) for the values of the model
NumStr(n) == CASE n = 0 -> "0" [] n = 1 -> "1" [] n = 2 -> "2" [] OTHER -> "3"

\* String(value), as setAttribute, the className setter and createTextVNode
\* convert
StringOf(v) ==
  CASE v.t = "string" -> v.s
    [] v.t = "number" -> NumStr(v.n)
    [] v.t = "boolean" -> (IF v.b THEN "true" ELSE "false")
    [] v.t = "undefined" -> "undefined"
    [] v.t = "null" -> "null"
    [] v.t = "object" -> "[object Object]"
    [] v.t = "function" -> "function"

NoVNode == [absent |-> TRUE]

\* children[i] of the source: undefined when i is out of range
At(seq, i) == IF i >= 0 /\ i < Len(seq) THEN seq[i + 1] ELSE NoVNode

\* `key in props`
HasProp(props, key) == \E j \in 1..Len(props) : props[j].key = key

\* props[key]: undefined for a missing key
GetProp(props, key) ==
  IF HasProp(props, key)
  THEN props[CHOOSE j \in 1..Len(props) : props[j].key = key].value
  ELSE Undefined

Max(a, b) == IF a >= b THEN a ELSE b

\* the members of a set of indices in ascending order (the order in which a
\* forEach or for-in loop of the source meets them)
RECURSIVE Ascending(_)
Ascending(S) ==
  IF S = {} THEN <<>>
  ELSE LET m == CHOOSE i \in S : \A j \in S : i <= j
       IN  <<m>> \o Ascending(S \ {m})

\* the indices 0..n-1 that satisfy Keep, ascending
FilterIdx(n, Keep(_)) == Ascending({i \in 0..(n - 1) : Keep(i)})

----------------------------------------------------------------------------
(* src/vdom.js *)

createTextVNode(text) ==
  [type |-> "TEXT", props |-> <<>>, children |-> <<>>, text |-> text]

\* h() on children that are already vnodes; an element has no text field in
\* the source, modelled as the empty text
h(type, props, children) ==
  [type |-> type, props |-> props, children |-> children, text |-> ""]

NullPatch == [type |-> "null"]

\* c?.props?.key
KeyOf(c) == IF c = NoVNode THEN Undefined ELSE GetProp(c.props, "key")

\* c?.props?.key != null
IsKeyed(c) == KeyOf(c) \notin {Undefined, NullVal}

\* diffProps without the comparison: every new prop is set again
diffProps_setAll(oldProps, newProps) ==
  LET remIdx == FilterIdx(Len(oldProps),
                  LAMBDA i : ~HasProp(newProps, oldProps[i + 1].key))
  IN  [j \in 1..Len(newProps) |->
         [type |-> "SET_PROP", key |-> newProps[j].key, value |-> newProps[j].value]]
      \o
      [j \in 1..Len(remIdx) |->
         [type |-> "REMOVE_PROP", key |-> oldProps[remIdx[j] + 1].key]]

diffProps(oldProps, newProps) ==
  LET setIdx == FilterIdx(Len(newProps),
                  LAMBDA i : GetProp(oldProps, newProps[i + 1].key) # newProps[i + 1].value)
      remIdx == FilterIdx(Len(oldProps),
                  LAMBDA i : ~HasProp(newProps, oldProps[i + 1].key))
  IN  [j \in 1..Len(setIdx) |->
         [type |-> "SET_PROP", key |-> newProps[setIdx[j] + 1].key,
          value |-> newProps[setIdx[j] + 1].value]]
      \o
      [j \in 1..Len(remIdx) |->
         [type |-> "REMOVE_PROP", key |-> oldProps[remIdx[j] + 1].key]]

\* oldKeyMap.get(key): the index of the LAST old child carrying the key
\* (Map.set overwrites), -1 when there is none
NoIndex == -1

OldKeyMapGet(oldChildren, key) ==
  LET hits == {i \in 0..(Len(oldChildren) - 1) :
                 IsKeyed(oldChildren[i + 1]) /\ KeyOf(oldChildren[i + 1]) = key}
  IN  IF hits = {} THEN NoIndex ELSE CHOOSE i \in hits : \A j \in hits : j <= i

RECURSIVE diff(_, _)
RECURSIVE diffChildren(_, _)

\* diffChildren taking the keyed path as soon as one new child has a key
\* (hasKeys tested where allKeyed is meant)
diffChildren_hasKeys(oldChildren, newChildren) ==
  LET keyedCount == Cardinality({i \in 1..Len(newChildren) : IsKeyed(newChildren[i])})
      allKeyed == keyedCount > 0 \/ Len(newChildren) = 0
      maxLength == Max(Len(oldChildren), Len(newChildren))
      oldIndexOf(newIndex) == OldKeyMapGet(oldChildren, KeyOf(newChildren[newIndex + 1]))
      usedOldIndices == {oldIndexOf(n) : n \in 0..(Len(newChildren) - 1)} \ {NoIndex}
      unused == FilterIdx(Len(oldChildren), LAMBDA i : i \notin usedOldIndices)
  IN  IF ~allKeyed
      THEN [keyed |-> FALSE,
            patches |-> [j \in 1..maxLength |->
                           diff(At(oldChildren, j - 1), At(newChildren, j - 1))]]
      ELSE [keyed |-> TRUE,
            patches |->
              [j \in 1..Len(newChildren) |->
                 IF oldIndexOf(j - 1) # NoIndex
                 THEN [oldIndex |-> oldIndexOf(j - 1), newIndex |-> j - 1,
                       key |-> KeyOf(newChildren[j]),
                       patch |-> diff(oldChildren[oldIndexOf(j - 1) + 1], newChildren[j])]
                 ELSE [oldIndex |-> NoIndex, newIndex |-> j - 1,
                       key |-> KeyOf(newChildren[j]),
                       patch |-> [type |-> "CREATE", vnode |-> newChildren[j]]]]
              \o
              [j \in 1..Len(unused) |->
                 [oldIndex |-> unused[j], newIndex |-> NoIndex,
                  key |-> KeyOf(oldChildren[unused[j] + 1]),
                  patch |-> [type |-> "REMOVE"]]]]

\* diffChildren without usedOldIndices: every old index gets a REMOVE entry
diffChildren_removeAll(oldChildren, newChildren) ==
  LET keyedCount == Cardinality({i \in 1..Len(newChildren) : IsKeyed(newChildren[i])})
      allKeyed == keyedCount = Len(newChildren)
      maxLength == Max(Len(oldChildren), Len(newChildren))
      oldIndexOf(newIndex) == OldKeyMapGet(oldChildren, KeyOf(newChildren[newIndex + 1]))
      usedOldIndices == {oldIndexOf(n) : n \in 0..(Len(newChildren) - 1)} \ {NoIndex}
      unused == FilterIdx(Len(oldChildren), LAMBDA i : TRUE)
  IN  IF ~allKeyed
      THEN [keyed |-> FALSE,
            patches |-> [j \in 1..maxLength |->
                           diff(At(oldChildren, j - 1), At(newChildren, j - 1))]]
      ELSE [keyed |-> TRUE,
            patches |->
              [j \in 1..Len(newChildren) |->
                 IF oldIndexOf(j - 1) # NoIndex
                 THEN [oldIndex |-> oldIndexOf(j - 1), newIndex |-> j - 1,
                       key |-> KeyOf(newChildren[j]),
                       patch |-> diff(oldChildren[oldIndexOf(j - 1) + 1], newChildren[j])]
                 ELSE [oldIndex |-> NoIndex, newIndex |-> j - 1,
                       key |-> KeyOf(newChildren[j]),
                       patch |-> [type |-> "CREATE", vnode |-> newChildren[j]]]]
              \o
              [j \in 1..Len(unused) |->
                 [oldIndex |-> unused[j], newIndex |-> NoIndex,
                  key |-> KeyOf(oldChildren[unused[j] + 1]),
                  patch |-> [type |-> "REMOVE"]]]]

\* diffChildren whose positional loop stops at the shorter of the two lists
diffChildren_minLength(oldChildren, newChildren) ==
  LET keyedCount == Cardinality({i \in 1..Len(newChildren) : IsKeyed(newChildren[i])})
      allKeyed == keyedCount = Len(newChildren)
      maxLength == IF Len(oldChildren) <= Len(newChildren)
                   THEN Len(oldChildren) ELSE Len(newChildren)
      oldIndexOf(newIndex) == OldKeyMapGet(oldChildren, KeyOf(newChildren[newIndex + 1]))
      usedOldIndices == {oldIndexOf(n) : n \in 0..(Len(newChildren) - 1)} \ {NoIndex}
      unused == FilterIdx(Len(oldChildren), LAMBDA i : i \notin usedOldIndices)
  IN  IF ~allKeyed
      THEN [keyed |-> FALSE,
            patches |-> [j \in 1..maxLength |->
                           diff(At(oldChildren, j - 1), At(newChildren, j - 1))]]
      ELSE [keyed |-> TRUE,
            patches |->
              [j \in 1..Len(newChildren) |->
                 IF oldIndexOf(j - 1) # NoIndex
                 THEN [oldIndex |-> oldIndexOf(j - 1), newIndex |-> j - 1,
                       key |-> KeyOf(newChildren[j]),
                       patch |-> diff(oldChildren[oldIndexOf(j - 1) + 1], newChildren[j])]
                 ELSE [oldIndex |-> NoIndex, newIndex |-> j - 1,
                       key |-> KeyOf(newChildren[j]),
                       patch |-> [type |-> "CREATE", vnode |-> newChildren[j]]]]
              \o
              [j \in 1..Len(unused) |->
                 [oldIndex |-> unused[j], newIndex |-> NoIndex,
                  key |-> KeyOf(oldChildren[unused[j] + 1]),
                  patch |-> [type |-> "REMOVE"]]]]

\* diffChildren whose matched keyed entry diffs the new child against the old
\* child at the same position instead of the one carrying its key
diffChildren_byPosition(oldChildren, newChildren) ==
  LET keyedCount == Cardinality({i \in 1..Len(newChildren) : IsKeyed(newChildren[i])})
      allKeyed == keyedCount = Len(newChildren)
      maxLength == Max(Len(oldChildren), Len(newChildren))
      oldIndexOf(newIndex) == OldKeyMapGet(oldChildren, KeyOf(newChildren[newIndex + 1]))
      usedOldIndices == {oldIndexOf(n) : n \in 0..(Len(newChildren) - 1)} \ {NoIndex}
      unused == FilterIdx(Len(oldChildren), LAMBDA i : i \notin usedOldIndices)
  IN  IF ~allKeyed
      THEN [keyed |-> FALSE,
            patches |-> [j \in 1..maxLength |->
                           diff(At(oldChildren, j - 1), At(newChildren, j - 1))]]
      ELSE [keyed |-> TRUE,
            patches |->
              [j \in 1..Len(newChildren) |->
                 IF oldIndexOf(j - 1) # NoIndex
                 THEN [oldIndex |-> oldIndexOf(j - 1), newIndex |-> j - 1,
                       key |-> KeyOf(newChildren[j]),
                       patch |-> diff(At(oldChildren, j - 1), newChildren[j])]
                 ELSE [oldIndex |-> NoIndex, newIndex |-> j - 1,
                       key |-> KeyOf(newChildren[j]),
                       patch |-> [type |-> "CREATE", vnode |-> newChildren[j]]]]
              \o
              [j \in 1..Len(unused) |->
                 [oldIndex |-> unused[j], newIndex |-> NoIndex,
                  key |-> KeyOf(oldChildren[unused[j] + 1]),
                  patch |-> [type |-> "REMOVE"]]]]

diffChildren(oldChildren, newChildren) ==
  LET keyedCount == Cardinality({i \in 1..Len(newChildren) : IsKeyed(newChildren[i])})
      allKeyed == keyedCount = Len(newChildren)
      maxLength == Max(Len(oldChildren), Len(newChildren))
      oldIndexOf(newIndex) == OldKeyMapGet(oldChildren, KeyOf(newChildren[newIndex + 1]))
      usedOldIndices == {oldIndexOf(n) : n \in 0..(Len(newChildren) - 1)} \ {NoIndex}
      unused == FilterIdx(Len(oldChildren), LAMBDA i : i \notin usedOldIndices)
  IN  IF ~allKeyed
      THEN [keyed |-> FALSE,
            patches |-> [j \in 1..maxLength |->
                           diff(At(oldChildren, j - 1), At(newChildren, j - 1))]]
      ELSE [keyed |-> TRUE,
            patches |->
              [j \in 1..Len(newChildren) |->
                 IF oldIndexOf(j - 1) # NoIndex
                 THEN [oldIndex |-> oldIndexOf(j - 1), newIndex |-> j - 1,
                       key |-> KeyOf(newChildren[j]),
                       patch |-> diff(oldChildren[oldIndexOf(j - 1) + 1], newChildren[j])]
                 ELSE [oldIndex |-> NoIndex, newIndex |-> j - 1,
                       key |-> KeyOf(newChildren[j]),
                       patch |-> [type |-> "CREATE", vnode |-> newChildren[j]]]]
              \o
              [j \in 1..Len(unused) |->
                 [oldIndex |-> unused[j], newIndex |-> NoIndex,
                  key |-> KeyOf(oldChildren[unused[j] + 1]),
                  patch |-> [type |-> "REMOVE"]]]]

\* diff whose CREATE carries the old (absent) vnode instead of the new one
diff_createOld(oldVNode, newVNode) ==
  IF oldVNode = NoVNode THEN [type |-> "CREATE", vnode |-> oldVNode]
  ELSE IF newVNode = NoVNode THEN [type |-> "REMOVE"]
  ELSE IF oldVNode.type # newVNode.type THEN [type |-> "REPLACE", vnode |-> newVNode]
  ELSE IF oldVNode.type = "TEXT"
       THEN (IF oldVNode.text # newVNode.text
             THEN [type |-> "TEXT", text |-> newVNode.text]
             ELSE NullPatch)
  ELSE LET propPatches == diffProps(oldVNode.props, newVNode.props)
           childPatches == diffChildren(oldVNode.children, newVNode.children)
       IN  IF Len(propPatches) > 0 \/ Len(childPatches.patches) > 0
           THEN [type |-> "UPDATE", propPatches |-> propPatches,
                 childPatches |-> childPatches]
           ELSE NullPatch

\* diff that replaces only across the TEXT / element divide, and reconciles an
\* element with an element of another kind
diff_noKindCheck(oldVNode, newVNode) ==
  IF oldVNode = NoVNode THEN [type |-> "CREATE", vnode |-> newVNode]
  ELSE IF newVNode = NoVNode THEN [type |-> "REMOVE"]
  ELSE IF (oldVNode.type = "TEXT") # (newVNode.type = "TEXT")
       THEN [type |-> "REPLACE", vnode |-> newVNode]
  ELSE IF oldVNode.type = "TEXT"
       THEN (IF oldVNode.text # newVNode.text
             THEN [type |-> "TEXT", text |-> newVNode.text]
             ELSE NullPatch)
  ELSE LET propPatches == diffProps(oldVNode.props, newVNode.props)
           childPatches == diffChildren(oldVNode.children, newVNode.children)
       IN  IF Len(propPatches) > 0 \/ Len(childPatches.patches) > 0
           THEN [type |-> "UPDATE", propPatches |-> propPatches,
                 childPatches |-> childPatches]
           ELSE NullPatch

\* diff that replaces a text node whose text changed instead of setting it
diff_textReplace(oldVNode, newVNode) ==
  IF oldVNode = NoVNode THEN [type |-> "CREATE", vnode |-> newVNode]
  ELSE IF newVNode = NoVNode THEN [type |-> "REMOVE"]
  ELSE IF oldVNode.type # newVNode.type THEN [type |-> "REPLACE", vnode |-> newVNode]
  ELSE IF oldVNode.type = "TEXT"
       THEN (IF oldVNode.text # newVNode.text
             THEN [type |-> "REPLACE", vnode |-> newVNode]
             ELSE NullPatch)
  ELSE LET propPatches == diffProps(oldVNode.props, newVNode.props)
           childPatches == diffChildren(oldVNode.children, newVNode.children)
       IN  IF Len(propPatches) > 0 \/ Len(childPatches.patches) > 0
           THEN [type |-> "UPDATE", propPatches |-> propPatches,
                 childPatches |-> childPatches]
           ELSE NullPatch

diff(oldVNode, newVNode) ==
  IF oldVNode = NoVNode THEN [type |-> "CREATE", vnode |-> newVNode]
  ELSE IF newVNode = NoVNode THEN [type |-> "REMOVE"]
  ELSE IF oldVNode.type # newVNode.type THEN [type |-> "REPLACE", vnode |-> newVNode]
  ELSE IF oldVNode.type = "TEXT"
       THEN (IF oldVNode.text # newVNode.text
             THEN [type |-> "TEXT", text |-> newVNode.text]
             ELSE NullPatch)
  ELSE LET propPatches == diffProps(oldVNode.props, newVNode.props)
           childPatches == diffChildren(oldVNode.children, newVNode.children)
       IN  IF Len(propPatches) > 0 \/ Len(childPatches.patches) > 0
           THEN [type |-> "UPDATE", propPatches |-> propPatches,
                 childPatches |-> childPatches]
           ELSE NullPatch

----------------------------------------------------------------------------
(* The diagnostics of diffChildren.                                         *)
(* diff and diffChildren above give the value a call returns; what the call *)
(* does to the module's two flags and to the console is computed here, on a *)
(* record c = [warnedMixedKeys, warnedNoKeys, console, threw], following    *)
(* the same calls in the same order.                                        *)

MixedKeysMessage == "murjs: Mixed keyed and unkeyed children. All siblings should have keys."

NoKeysMessage == "murjs: List rendered without keys. Add \"key\" prop for better performance."

\* newChildren.filter(c => c?.props?.key != null).length
keyedCount(newChildren) ==
  Cardinality({i \in 1..Len(newChildren) : IsKeyed(newChildren[i])})

\* the diagnostics thrown as errors instead of printed
warnChildren_throw(c, newChildren) ==
  IF c.threw THEN c
  ELSE IF keyedCount(newChildren) > 0 /\ keyedCount(newChildren) # Len(newChildren)
       THEN [c EXCEPT !.threw = TRUE]
  ELSE IF keyedCount(newChildren) = 0 /\ Len(newChildren) > 1
       THEN [c EXCEPT !.threw = TRUE]
  ELSE c

\* the diagnostics printed without the flags being set
warnChildren_noLatch(c, newChildren) ==
  IF c.threw THEN c
  ELSE IF keyedCount(newChildren) > 0 /\ keyedCount(newChildren) # Len(newChildren)
          /\ ~c.warnedMixedKeys
       THEN [c EXCEPT !.console = Append(@, MixedKeysMessage)]
  ELSE IF keyedCount(newChildren) = 0 /\ Len(newChildren) > 1 /\ ~c.warnedNoKeys
       THEN [c EXCEPT !.console = Append(@, NoKeysMessage)]
  ELSE c

\* if (hasKeys && !allKeyed && !warnedMixedKeys) ... else if (!hasKeys &&
\* newChildren.length > 1 && !warnedNoKeys) ...
warnChildren(c, newChildren) ==
  IF c.threw THEN c
  ELSE IF keyedCount(newChildren) > 0 /\ keyedCount(newChildren) # Len(newChildren)
          /\ ~c.warnedMixedKeys
       THEN [c EXCEPT !.warnedMixedKeys = TRUE, !.console = Append(@, MixedKeysMessage)]
  ELSE IF keyedCount(newChildren) = 0 /\ Len(newChildren) > 1 /\ ~c.warnedNoKeys
       THEN [c EXCEPT !.warnedNoKeys = TRUE, !.console = Append(@, NoKeysMessage)]
  ELSE c

RECURSIVE diffWarns(_, _, _)
RECURSIVE diffChildrenWarns(_, _, _)
RECURSIVE positionalWarnsFrom(_, _, _, _)
RECURSIVE keyedWarnsFrom(_, _, _, _)

\* the calls of diff in the positional loop, from index i on
positionalWarnsFrom(c, oldChildren, newChildren, i) ==
  IF i >= Max(Len(oldChildren), Len(newChildren)) THEN c
  ELSE positionalWarnsFrom(diffWarns(c, At(oldChildren, i), At(newChildren, i)),
                           oldChildren, newChildren, i + 1)

\* the calls of diff in newChildren.forEach, from newIndex on
keyedWarnsFrom(c, oldChildren, newChildren, newIndex) ==
  IF newIndex >= Len(newChildren) THEN c
  ELSE keyedWarnsFrom(
         IF OldKeyMapGet(oldChildren, KeyOf(newChildren[newIndex + 1])) # NoIndex
         THEN diffWarns(c,
                oldChildren[OldKeyMapGet(oldChildren, KeyOf(newChildren[newIndex + 1])) + 1],
                newChildren[newIndex + 1])
         ELSE c,
         oldChildren, newChildren, newIndex + 1)

\* diffChildren(oldChildren, newChildren)
diffChildrenWarns(c, oldChildren, newChildren) ==
  IF keyedCount(newChildren) # Len(newChildren)
  THEN positionalWarnsFrom(warnChildren(c, newChildren), oldChildren, newChildren, 0)
  ELSE keyedWarnsFrom(warnChildren(c, newChildren), oldChildren, newChildren, 0)

\* diff(oldVNode, newVNode): diffChildren is reached by two elements of the
\* same type
diffWarns(c, oldVNode, newVNode) ==
  IF oldVNode = NoVNode \/ newVNode = NoVNode THEN c
  ELSE IF oldVNode.type # newVNode.type THEN c
  ELSE IF oldVNode.type = "TEXT" THEN c
  ELSE diffChildrenWarns(c, oldVNode.children, newVNode.children)

----------------------------------------------------------------------------
(* The live document tree (the DOM the patcher mutates).                    *)
(* A document is [nodes, threw, log, ret]: nodes is the heap of live nodes, *)
(* a node's identity is its index in it (0 is null/undefined); threw is set *)
(* once a DOM call has thrown, after which nothing more executes; log lists *)
(* the mutations performed; ret is the value the last call returned.        *)

NoNode == 0

NewNode(kind, tag, text) ==
  [kind |-> kind, tag |-> tag, text |-> text,
   attrs |-> <<>>, style |-> <<>>, value |-> Undefined,
   handlers |-> <<>>, listeners |-> <<>>,
   childNodes |-> <<>>, parent |-> NoNode]

\* a document holding only the container element
EmptyDoc ==
  [nodes |-> <<NewNode("element", "body", "")>>, threw |-> FALSE,
   log |-> <<>>, ret |-> NoNode]

Container == 1

Logged(w, op, node) == Append(w.log, [op |-> op, node |-> node])

Throw(w) == [w EXCEPT !.threw = TRUE, !.ret = NoNode]

\* the sequence without its element equal to x
Without(seq, x) == SelectSeq(seq, LAMBDA y : y # x)

\* 0-based index of x in seq, -1 when absent
IndexOf(seq, x) ==
  IF \E j \in 1..Len(seq) : seq[j] = x
  THEN (CHOOSE j \in 1..Len(seq) : seq[j] = x) - 1
  ELSE NoIndex

\* seq with x inserted so that it gets 0-based index i
InsertAt(seq, i, x) == SubSeq(seq, 1, i) \o <<x>> \o SubSeq(seq, i + 1, Len(seq))

\* an ordered key/value map with the key set (in place when present)
PutPair(pairs, key, value) ==
  IF HasProp(pairs, key)
  THEN [j \in 1..Len(pairs) |->
          IF pairs[j].key = key THEN [key |-> key, value |-> value] ELSE pairs[j]]
  ELSE Append(pairs, [key |-> key, value |-> value])

DelPair(pairs, key) == SelectSeq(pairs, LAMBDA q : q.key # key)

\* the heap after the node has left its parent, if it had one
Detach(nodes, node) ==
  LET par == nodes[node].parent
  IN  IF par = NoNode THEN nodes
      ELSE [nodes EXCEPT ![par].childNodes = Without(@, node),
                         ![node].parent = NoNode]

\* parent.childNodes[i]
ChildAt(w, parent, i) ==
  LET kids == w.nodes[parent].childNodes
  IN  IF i >= 0 /\ i < Len(kids) THEN kids[i + 1] ELSE NoNode

createTextNode(w, text) ==
  IF w.threw THEN w
  ELSE [w EXCEPT !.nodes = Append(@, NewNode("text", "#text", text)),
                 !.log = Logged(w, "create", Len(w.nodes) + 1),
                 !.ret = Len(w.nodes) + 1]

documentCreateElement(w, tag) ==
  IF w.threw THEN w
  ELSE [w EXCEPT !.nodes = Append(@, NewNode("element", tag, "")),
                 !.log = Logged(w, "create", Len(w.nodes) + 1),
                 !.ret = Len(w.nodes) + 1]

appendChild(w, parent, child) ==
  IF w.threw THEN w
  ELSE IF parent = NoNode \/ child = NoNode THEN Throw(w)
  ELSE LET n1 == Detach(w.nodes, child)
       IN  [w EXCEPT !.nodes = [n1 EXCEPT ![parent].childNodes = Append(@, child),
                                          ![child].parent = parent],
                     !.log = Logged(w, "appendChild", child),
                     !.ret = child]

removeChild(w, parent, child) ==
  IF w.threw THEN w
  ELSE IF parent = NoNode \/ child = NoNode THEN Throw(w)
  ELSE IF w.nodes[child].parent # parent THEN Throw(w)
  ELSE [w EXCEPT !.nodes = Detach(w.nodes, child),
                 !.log = Logged(w, "removeChild", child),
                 !.ret = child]

replaceChild(w, parent, newEl, old) ==
  IF w.threw THEN w
  ELSE IF parent = NoNode \/ newEl = NoNode \/ old = NoNode THEN Throw(w)
  ELSE IF w.nodes[old].parent # parent THEN Throw(w)
  ELSE IF newEl = old THEN [w EXCEPT !.ret = old]
  ELSE LET n1 == Detach(w.nodes, newEl)
           i == IndexOf(n1[parent].childNodes, old)
       IN  [w EXCEPT !.nodes = [n1 EXCEPT ![parent].childNodes = [@ EXCEPT ![i + 1] = newEl],
                                          ![newEl].parent = parent,
                                          ![old].parent = NoNode],
                     !.log = Logged(w, "replaceChild", newEl),
                     !.ret = old]

\* parent.insertBefore(node, ref); a null ref appends
insertBefore(w, parent, node, ref) ==
  IF w.threw THEN w
  ELSE IF parent = NoNode \/ node = NoNode THEN Throw(w)
  ELSE IF ref # NoNode /\ w.nodes[ref].parent # parent THEN Throw(w)
  ELSE IF node = ref THEN [w EXCEPT !.ret = node]
  ELSE LET n1 == Detach(w.nodes, node)
           kids == n1[parent].childNodes
           i == IF ref = NoNode THEN Len(kids) ELSE IndexOf(kids, ref)
       IN  [w EXCEPT !.nodes = [n1 EXCEPT ![parent].childNodes = InsertAt(kids, i, node),
                                          ![node].parent = parent],
                     !.log = Logged(w, "insertBefore", node),
                     !.ret = node]

\* el.textContent = text, on a text node
setTextContent(w, el, text) ==
  IF w.threw THEN w
  ELSE IF el = NoNode THEN Throw(w)
  ELSE [w EXCEPT !.nodes = [@ EXCEPT ![el].text = text],
                 !.log = Logged(w, "textContent", el)]

setAttribute(w, el, key, value) ==
  IF w.threw THEN w
  ELSE [w EXCEPT !.nodes = [@ EXCEPT ![el].attrs = PutPair(@, key, StringOf(value))],
                 !.log = Logged(w, "setAttribute", el)]

\* removing the style attribute also empties the inline style
removeAttribute(w, el, key) ==
  IF w.threw THEN w
  ELSE [w EXCEPT !.nodes = [@ EXCEPT ![el].attrs = DelPair(@, key),
                                     ![el].style = IF key = "style" THEN <<>> ELSE @],
                 !.log = Logged(w, "removeAttribute", el)]

\* el.className = value: the property reflects the class attribute
setClassName(w, el, value) ==
  IF w.threw THEN w
  ELSE [w EXCEPT !.nodes = [@ EXCEPT ![el].attrs = PutPair(@, "class", StringOf(value))],
                 !.log = Logged(w, "className", el)]

\* Object.assign(el.style, value): every entry of value is copied over
RECURSIVE AssignPairs(_, _)
AssignPairs(pairs, src) ==
  IF src = <<>> THEN pairs
  ELSE AssignPairs(PutPair(pairs, Head(src).key, Head(src).value), Tail(src))

assignStyle(w, el, value) ==
  IF w.threw THEN w
  ELSE [w EXCEPT !.nodes = [@ EXCEPT ![el].style = AssignPairs(@, value.m)],
                 !.log = Logged(w, "style", el)]

\* el.value = value: a property, not an attribute
setValue(w, el, value) ==
  IF w.threw THEN w
  ELSE [w EXCEPT !.nodes = [@ EXCEPT ![el].value = value],
                 !.log = Logged(w, "value", el)]

\* a listener list holds each (event, callback) pair at most once
addEventListener(w, el, eventName, fn) ==
  IF w.threw THEN w
  ELSE LET l == [event |-> eventName, fn |-> fn]
       IN  [w EXCEPT !.nodes = [@ EXCEPT ![el].listeners =
                                   IF \E j \in 1..Len(@) : @[j] = l THEN @ ELSE Append(@, l)],
                     !.log = Logged(w, "addEventListener", el)]

removeEventListener(w, el, eventName, fn) ==
  IF w.threw THEN w
  ELSE [w EXCEPT !.nodes = [@ EXCEPT ![el].listeners =
                              Without(@, [event |-> eventName, fn |-> fn])],
                 !.log = Logged(w, "removeEventListener", el)]

----------------------------------------------------------------------------
(* src/render.js *)

\* key.startsWith('on'), over the attribute names of the model
StartsWithOn(key) == key \in {"onClick", "onclick", "onInput"}

\* key.slice(2).toLowerCase()
EventNameOf(key) ==
  CASE key = "onClick" -> "click"
    [] key = "onclick" -> "click"
    [] key = "onInput" -> "input"

\* JavaScript truthiness of a prop value
Truthy(v) ==
  CASE v.t = "string" -> v.s # ""
    [] v.t \in {"undefined", "null"} -> FALSE
    [] OTHER -> TRUE

\* handlers[key] = value on the element's entry of the eventHandlers WeakMap
setHandler(w, el, key, value) ==
  IF w.threw THEN w
  ELSE [w EXCEPT !.nodes = [@ EXCEPT ![el].handlers = PutPair(@, key, value)]]

deleteHandler(w, el, key) ==
  IF w.threw THEN w
  ELSE [w EXCEPT !.nodes = [@ EXCEPT ![el].handlers = DelPair(@, key)]]

\* setProp without its first line: key is set like any attribute
setProp_noKeyFilter(w, el, key, value) ==
  IF w.threw THEN w
  ELSE IF StartsWithOn(key)
  THEN LET eventName == EventNameOf(key)
           prev == GetProp(w.nodes[el].handlers, key)
           w1 == IF Truthy(prev) THEN removeEventListener(w, el, eventName, prev) ELSE w
           w2 == setHandler(w1, el, key, value)
       IN  IF value.t = "function" THEN addEventListener(w2, el, eventName, value) ELSE w2
  ELSE IF key = "className" THEN setClassName(w, el, value)
  ELSE IF key = "style" /\ value.t \in {"object", "null"}
       THEN (IF value.t = "object" THEN assignStyle(w, el, value) ELSE w)
  ELSE IF key = "value" THEN setValue(w, el, value)
  ELSE setAttribute(w, el, key, value)

\* setProp keeping the listener it registered before: no removeEventListener
setProp_keepPrevious(w, el, key, value) ==
  IF w.threw \/ key = "key" THEN w
  ELSE IF StartsWithOn(key)
  THEN LET eventName == EventNameOf(key)
           w2 == setHandler(w, el, key, value)
       IN  IF value.t = "function" THEN addEventListener(w2, el, eventName, value) ELSE w2
  ELSE IF key = "className" THEN setClassName(w, el, value)
  ELSE IF key = "style" /\ value.t \in {"object", "null"}
       THEN (IF value.t = "object" THEN assignStyle(w, el, value) ELSE w)
  ELSE IF key = "value" THEN setValue(w, el, value)
  ELSE setAttribute(w, el, key, value)

setProp(w, el, key, value) ==
  IF w.threw \/ key = "key" THEN w
  ELSE IF StartsWithOn(key)
  THEN LET eventName == EventNameOf(key)
           prev == GetProp(w.nodes[el].handlers, key)
           w1 == IF Truthy(prev) THEN removeEventListener(w, el, eventName, prev) ELSE w
           w2 == setHandler(w1, el, key, value)
       IN  IF value.t = "function" THEN addEventListener(w2, el, eventName, value) ELSE w2
  ELSE IF key = "className" THEN setClassName(w, el, value)
  ELSE IF key = "style" /\ value.t \in {"object", "null"}
       THEN (IF value.t = "object" THEN assignStyle(w, el, value) ELSE w)
  ELSE IF key = "value" THEN setValue(w, el, value)
  ELSE setAttribute(w, el, key, value)

RECURSIVE setPropsFrom(_, _, _, _)
setPropsFrom(w, el, props, i) ==
  IF i >= Len(props) THEN w
  ELSE setPropsFrom(setProp(w, el, props[i + 1].key, props[i + 1].value), el, props, i + 1)

setProps(w, el, props) == setPropsFrom(w, el, props, 0)

removeProp(w, el, key) ==
  IF w.threw THEN w
  ELSE IF StartsWithOn(key)
  THEN LET prev == GetProp(w.nodes[el].handlers, key)
       IN  IF Truthy(prev)
           THEN deleteHandler(removeEventListener(w, el, EventNameOf(key), prev), el, key)
           ELSE w
  ELSE IF key = "className" THEN setClassName(w, el, Str(""))
  ELSE removeAttribute(w, el, key)

\* return node, unless a call has thrown
Returning(w, node) == IF w.threw THEN w ELSE [w EXCEPT !.ret = node]

\* parent.appendChild(created), created being the node w1 has just returned
appendCreated(w1, parent) == Returning(appendChild(w1, parent, w1.ret), w1.ret)

\* REPLACE returning the replaced node instead of the new one
replaceWithCreated_returnOld(w1, parent, el) ==
  Returning(replaceChild(w1, parent, w1.ret, el), el)

\* parent.replaceChild(created, el)
replaceWithCreated(w1, parent, el) == Returning(replaceChild(w1, parent, w1.ret, el), w1.ret)

RECURSIVE createElement(_, _)
RECURSIVE appendChildrenFrom(_, _, _, _)

\* vnode.children.forEach(child => el.appendChild(createElement(child)))
appendChildrenFrom(w, el, children, i) ==
  IF i >= Len(children) THEN w
  ELSE appendChildrenFrom(appendCreated(createElement(w, children[i + 1]), el),
                          el, children, i + 1)

\* createElement after document.createElement: setProps, the children, return el
createElementIn(w1, vnode) ==
  Returning(appendChildrenFrom(setProps(w1, w1.ret, vnode.props), w1.ret, vnode.children, 0),
            w1.ret)

createElement(w, vnode) ==
  IF w.threw THEN w
  ELSE IF vnode = NoVNode THEN Throw(w)
  ELSE IF vnode.type = "TEXT" THEN createTextNode(w, vnode.text)
  ELSE createElementIn(documentCreateElement(w, vnode.type), vnode)

\* patchObj.propPatches.forEach(...)
RECURSIVE applyPropPatchesFrom(_, _, _, _)
applyPropPatchesFrom(w, el, propPatches, i) ==
  IF i >= Len(propPatches) THEN w
  ELSE applyPropPatchesFrom(
         IF propPatches[i + 1].type = "SET_PROP"
         THEN setProp(w, el, propPatches[i + 1].key, propPatches[i + 1].value)
         ELSE removeProp(w, el, propPatches[i + 1].key),
         el, propPatches, i + 1)

RECURSIVE patch(_, _, _, _, _)
RECURSIVE patchKeyedChildren(_, _, _, _, _)
RECURSIVE keyedBuildFrom(_, _, _, _, _, _, _, _)
RECURSIVE keyedReorderFrom(_, _, _, _)
RECURSIVE keyedTrim(_, _, _)
RECURSIVE patchPositionalFrom(_, _, _, _, _, _, _)
RECURSIVE keyedBuildNext(_, _, _, _, _, _, _, _)

\* the first loop of patchKeyedChildren creating every new child afresh,
\* matched or not
keyedBuildFrom_recreate(w, parent, oldDomChildren, patches, oldVNode, newVNode, j, newElements) ==
  IF j >= Len(patches) \/ w.threw THEN [w |-> w, newElements |-> newElements]
  ELSE LET p == patches[j + 1]
       IN  IF p.newIndex = NoIndex
           THEN keyedBuildFrom(w, parent, oldDomChildren, patches, oldVNode, newVNode,
                               j + 1, newElements)
           ELSE keyedBuildNext(
                  createElement(w, At(newVNode.children, p.newIndex)),
                  parent, oldDomChildren, patches, oldVNode, newVNode, j, newElements)

\* the first loop of patchKeyedChildren: the document and newElements after
\* the patches from index j on; newElements[i] is 0 while it is a hole
keyedBuildFrom(w, parent, oldDomChildren, patches, oldVNode, newVNode, j, newElements) ==
  IF j >= Len(patches) \/ w.threw THEN [w |-> w, newElements |-> newElements]
  ELSE LET p == patches[j + 1]
       IN  IF p.newIndex = NoIndex
           THEN keyedBuildFrom(w, parent, oldDomChildren, patches, oldVNode, newVNode,
                               j + 1, newElements)
           ELSE keyedBuildNext(
                  IF p.oldIndex # NoIndex
                  THEN patch(w, parent,
                             IF p.oldIndex >= 0 /\ p.oldIndex < Len(oldDomChildren)
                             THEN oldDomChildren[p.oldIndex + 1] ELSE NoNode,
                             At(oldVNode.children, p.oldIndex),
                             At(newVNode.children, p.newIndex))
                  ELSE createElement(w, p.patch.vnode),
                  parent, oldDomChildren, patches, oldVNode, newVNode, j, newElements)

\* newElements[patch.newIndex] = el, el being the node w1 has just returned,
\* then the rest of the loop
keyedBuildNext(w1, parent, oldDomChildren, patches, oldVNode, newVNode, j, newElements) ==
  keyedBuildFrom(w1, parent, oldDomChildren, patches, oldVNode, newVNode, j + 1,
                 [newElements EXCEPT ![patches[j + 1].newIndex + 1] = w1.ret])

\* newElements.forEach((el, i) => ...): move el to index i unless it is there
keyedReorderFrom(w, parent, newElements, i) ==
  IF i >= Len(newElements) \/ w.threw THEN w
  ELSE LET el == newElements[i + 1]
           cur == ChildAt(w, parent, i)
       IN  keyedReorderFrom(IF cur # el THEN insertBefore(w, parent, el, cur) ELSE w,
                            parent, newElements, i + 1)

\* patchKeyedChildren without its final loop: excess children are kept
keyedTrim_keepAll(w, parent, n) == w

\* while (parent.childNodes.length > newElements.length) removeChild(lastChild)
keyedTrim(w, parent, n) ==
  IF w.threw \/ Len(w.nodes[parent].childNodes) <= n THEN w
  ELSE keyedTrim(removeChild(w, parent, ChildAt(w, parent, Len(w.nodes[parent].childNodes) - 1)),
                 parent, n)

\* the reorder and trim loops of patchKeyedChildren, b being what the first
\* loop built
keyedArrange(b, parent) ==
  keyedTrim(keyedReorderFrom(b.w, parent, b.newElements, 0), parent, Len(b.newElements))

patchKeyedChildren(w, parent, childPatches, oldVNode, newVNode) ==
  keyedArrange(
    keyedBuildFrom(w, parent, w.nodes[parent].childNodes, childPatches.patches,
                   oldVNode, newVNode, 0,
                   [i \in 1..Cardinality({j \in 1..Len(childPatches.patches) :
                                            childPatches.patches[j].newIndex # NoIndex})
                      |-> NoNode]),
    parent)

\* the positional loop handing every call the live child at the index the
\* list has by then, instead of the children as they were before the loop
patchPositionalFrom_liveIndex(w, el, childNodes, n, oldVNode, newVNode, i) ==
  IF i >= n \/ w.threw THEN w
  ELSE patchPositionalFrom(
         patch(w, el,
               IF i < Len(w.nodes[el].childNodes) THEN w.nodes[el].childNodes[i + 1]
               ELSE NoNode,
               At(oldVNode.children, i), At(newVNode.children, i)),
         el, childNodes, n, oldVNode, newVNode, i + 1)

\* patchObj.childPatches.patches.forEach((_, i) => patch(el, childNodes[i], ...))
patchPositionalFrom(w, el, childNodes, n, oldVNode, newVNode, i) ==
  IF i >= n \/ w.threw THEN w
  ELSE patchPositionalFrom(
         patch(w, el, IF i < Len(childNodes) THEN childNodes[i + 1] ELSE NoNode,
               At(oldVNode.children, i), At(newVNode.children, i)),
         el, childNodes, n, oldVNode, newVNode, i + 1)

\* the UPDATE branch after the prop patches: the child patches, return el
patchChildren(w1, el, patchObj, oldVNode, newVNode) ==
  Returning(IF patchObj.childPatches.keyed
            THEN patchKeyedChildren(w1, el, patchObj.childPatches, oldVNode, newVNode)
            ELSE patchPositionalFrom(w1, el, w1.nodes[el].childNodes,
                                     Len(patchObj.childPatches.patches),
                                     oldVNode, newVNode, 0),
            el)

\* the body of patch, patchObj being diff(oldVNode, newVNode)
patchWith(w, parent, el, oldVNode, newVNode, patchObj) ==
  IF w.threw THEN w
  ELSE IF patchObj = NullPatch THEN [w EXCEPT !.ret = el]
  ELSE IF patchObj.type = "CREATE"
       THEN appendCreated(createElement(w, patchObj.vnode), parent)
  ELSE IF patchObj.type = "REMOVE"
       THEN [removeChild(w, parent, el) EXCEPT !.ret = NoNode]
  ELSE IF patchObj.type = "REPLACE"
       THEN replaceWithCreated(createElement(w, patchObj.vnode), parent, el)
  ELSE IF patchObj.type = "TEXT"
       THEN Returning(setTextContent(w, el, patchObj.text), el)
  ELSE IF el = NoNode THEN Throw(w)
  ELSE patchChildren(applyPropPatchesFrom(w, el, patchObj.propPatches, 0),
                     el, patchObj, oldVNode, newVNode)

patch(w, parent, el, oldVNode, newVNode) ==
  patchWith(w, parent, el, oldVNode, newVNode, diff(oldVNode, newVNode))

----------------------------------------------------------------------------
(* State *)

VARIABLES
  pc,           \* which operation produced the current state
  oldVNode,     \* diff / patch: the old vnode
  newVNode,     \* diff / patch: the new vnode
  patchObj,     \* the patch diff returned
  oldChildren,  \* diffChildren: the old child list
  newChildren,  \* diffChildren: the new child list
  childPatches, \* what diffChildren returned
  oldProps,     \* the attributes the live node was created from
  newProps,     \* the attributes it is patched to
  doc,          \* the live document
  domNode,      \* patch / mount: the live node patch returned
  liveParent,   \* patch called on its own: its parent argument
  liveEl,       \* patch called on its own: its el argument (0: undefined)
  target,       \* createReactive: the wrapped object, key -> value
  deps,         \* createReactive: key -> the effects subscribed, in insertion order
  effects,      \* the effects registered: [fn, deps], deps being wrappedEffect.deps
  currentEffect,\* the effect that is running (0: none)
  vnode,        \* mount: the vnode rendered last (NoVNode before the first render)
  crashed,      \* a write or registration has thrown instead of returning
  runs,         \* how often each effect ran during the last call
  written,      \* the last call, if a write: its key, its value, and whether
                \* the value changed
  obs,          \* what the runs of the last call were observed to do
  warnedMixedKeys, \* vdom.js: the mixed-keys diagnostic has been emitted
  warnedNoKeys,    \* vdom.js: the no-keys diagnostic has been emitted
  console,         \* the messages passed to console.warn, in order
  hArgs,           \* h: its arguments, [type, props, children]
  hResult,         \* h: the vnode it returned
  lineage,         \* the element types from the root of the rendered tree
                   \* down to the live parent a patch creates a node under
  parentEl,        \* that live parent: its tagName and namespaceURI
  created          \* the element the patch created: how, and the element

diffVars == <<oldVNode, newVNode, patchObj, oldChildren, newChildren, childPatches>>
liveVars == <<oldProps, newProps, doc, domNode, liveParent, liveEl>>
reactiveVars == <<target, deps, effects, currentEffect, vnode, crashed, runs, written, obs>>

warnVars == <<warnedMixedKeys, warnedNoKeys, console>>

hVars == <<hArgs, hResult>>

nsVars == <<lineage, parentEl, created>>

vars == <<pc, diffVars, liveVars, reactiveVars, warnVars, hVars, nsVars>>

----------------------------------------------------------------------------
(* Bounded inputs *)

\* the longest child list
MaxKids == 2

Texts == {"A", "B"}

keyProp(k) == [key |-> "key", value |-> k]
classProp(c) == [key |-> "className", value |-> Str(c)]

\* sibling candidates of the differ: text nodes, keyed and unkeyed elements,
\* with and without children of their own
Items ==
  {createTextVNode(t) : t \in Texts} \cup
  { h("li", <<keyProp(Str("a"))>>, <<>>),
    h("li", <<keyProp(Str("b"))>>, <<createTextVNode("A")>>),
    h("li", <<>>, <<createTextVNode("A")>>) }

\* sibling candidates of diffChildren: every way of carrying or lacking a key
KeyItems ==
  { createTextVNode("A"),
    createTextVNode("B"),
    h("li", <<>>, <<>>),
    h("li", <<keyProp(NullVal)>>, <<>>),
    h("li", <<keyProp(Str("a"))>>, <<>>),
    h("p", <<keyProp(Str("b"))>>, <<>>),
    h("p", <<keyProp(Str("a"))>>, <<createTextVNode("A")>>),
    h("li", <<keyProp(Str("c"))>>, <<createTextVNode("A")>>) }

SeqsUpTo(S, n) == UNION {[1..m -> S] : m \in 0..n}

Heads ==
  { [type |-> "ul", props |-> <<>>],
    [type |-> "ul", props |-> <<classProp("")>>],
    [type |-> "ul", props |-> <<classProp("completed")>>],
    [type |-> "ol", props |-> <<classProp("completed")>>] }

DiffNodes ==
  Items \cup {h(hd.type, hd.props, c) : hd \in Heads, c \in SeqsUpTo(Items, MaxKids)}

----------------------------------------------------------------------------
(* The differ on its own: one call of diff or of diffChildren *)

\* nothing diffed yet
DiffIdle ==
  /\ oldVNode = NoVNode
  /\ newVNode = NoVNode
  /\ patchObj = NullPatch
  /\ oldChildren = <<>>
  /\ newChildren = <<>>
  /\ childPatches = [keyed |-> TRUE, patches |-> <<>>]

\* let warnedMixedKeys = false; let warnedNoKeys = false; nothing printed
WarnIdle ==
  /\ warnedMixedKeys = FALSE
  /\ warnedNoKeys = FALSE
  /\ console = <<>>

\* h not called
HIdle ==
  /\ hArgs = [type |-> "", props |-> Undefined, children |-> <<>>]
  /\ hResult = NoVNode

(* The namespaced renderer (render.js with SVG and MathML support).          *)
(* Namespaces are strings, "" standing for null; an element is its tagName  *)
(* and namespaceURI.                                                        *)

SVG_NS == "http://www.w3.org/2000/svg"
MATHML_NS == "http://www.w3.org/1998/Math/MathML"
\* the namespace document.createElement gives an element of an HTML document
XHTML_NS == "http://www.w3.org/1999/xhtml"
\* null
NoNs == ""

\* the element types of the model
NsTypes == {"div", "svg", "math", "foreignObject", "g", "mi"}

\* String.prototype.toLowerCase, over the tag names of the model
toLowerCase(s) ==
  CASE s \in {"div", "DIV"} -> "div"
    [] s \in {"svg", "SVG"} -> "svg"
    [] s \in {"math", "MATH"} -> "math"
    [] s \in {"foreignObject", "foreignobject", "FOREIGNOBJECT"} -> "foreignobject"
    [] s \in {"g", "G"} -> "g"
    [] s \in {"mi", "MI"} -> "mi"
    [] s \in {"body", "BODY"} -> "body"

\* String.prototype.toUpperCase, over the element types of the model
toUpperCase(s) ==
  CASE s = "div" -> "DIV"
    [] s = "svg" -> "SVG"
    [] s = "math" -> "MATH"
    [] s = "foreignObject" -> "FOREIGNOBJECT"
    [] s = "g" -> "G"
    [] s = "mi" -> "MI"

\* document.createElement(type) in an HTML document: an HTML element, whose
\* tagName is in upper case
htmlElement(type) == [tagName |-> toUpperCase(type), namespaceURI |-> XHTML_NS]

\* document.createElementNS(ns, type): tagName is the qualified name as given
createElementNS(ns, type) == [tagName |-> type, namespaceURI |-> ns]

getNamespace(type, parentNs) ==
  IF type = "svg" THEN SVG_NS
  ELSE IF type = "math" THEN MATHML_NS
  ELSE parentNs

getChildNamespace(type, elementNs) ==
  IF type = "foreignObject" THEN NoNs ELSE elementNs

\* the element createElement(vnode, ns) creates for an element vnode
createElementOf(type, ns) ==
  LET elementNs == getNamespace(type, ns)
  IN  IF elementNs # NoNs THEN createElementNS(elementNs, type) ELSE htmlElement(type)

\* the namespace createElement(vnode, ns) passes to the children of its element
childNsOf(type, ns) == getChildNamespace(type, getNamespace(type, ns))

\* createElement(root) recursing down the lineage: the namespace argument
\* with which the children of the element at depth i are created
RECURSIVE childNsAt(_, _)
childNsAt(types, i) ==
  IF i = 0 THEN NoNs ELSE childNsOf(types[i], childNsAt(types, i - 1))

\* the element createElement(root) creates at depth i of the lineage
elementAt(types, i) == createElementOf(types[i], childNsAt(types, i - 1))

\* patch / patchKeyedChildren: the namespace inferred from the parent DOM element
inferredChildNs(parent) ==
  IF parent.namespaceURI = SVG_NS \/ parent.namespaceURI = MATHML_NS
  THEN getChildNamespace(toLowerCase(parent.tagName), parent.namespaceURI)
  ELSE NoNs

\* no namespaced tree rendered
NsIdle ==
  /\ lineage = <<>>
  /\ parentEl = [tagName |-> "BODY", namespaceURI |-> XHTML_NS]
  /\ created = [via |-> "none"]

\* nothing rendered yet
LiveIdle ==
  /\ oldProps = <<>>
  /\ newProps = <<>>
  /\ doc = EmptyDoc
  /\ domNode = NoNode
  /\ liveParent = Container
  /\ liveEl = NoNode

\* the reactive keys of the store
Keys == {"x", "y", "flag"}

NoEffect == 0

\* the last call was no write
NoWrite == [key |-> "", value |-> 0, changed |-> FALSE]

\* the observations of a call, before any of its runs: every run that
\* completed left the effect subscribed to exactly the keys it read (exact),
\* or did so unless the effect was started again meanwhile (exactOnce);
\* every read of the key whose write started the run returned the value
\* written (fresh), or did so unless the key was written again meanwhile
\* (freshLatest); every write that changed a value ran every subscriber but
\* the active one before it returned (notified); the two halves of the
\* dependency index agreed whenever a run started or completed (agree);
\* changed is the set of keys written with a changed value; no effect was
\* called while a run of it was in progress (alone), or while a run of it
\* was the innermost one (notInnermost); every effect called for a write was
\* subscribed to the written key when it was called (subscribed), or when
\* the write was made (wasSubscribed); resumedKeys are the keys a run read
\* after a run nested in it had completed, and every such read left the
\* run's effect subscribed to the key (resumed); whenever an effect was
\* called, a key was read or a run completed, the slot currentEffect named
\* the innermost run in progress, or was empty when there was none (slot)
Unobserved ==
  [exact |-> TRUE, exactOnce |-> TRUE, fresh |-> TRUE, freshLatest |-> TRUE,
   notified |-> TRUE, agree |-> TRUE, changed |-> {},
   alone |-> TRUE, notInnermost |-> TRUE, subscribed |-> TRUE,
   wasSubscribed |-> TRUE, resumedKeys |-> {}, resumed |-> TRUE, slot |-> TRUE]

\* createReactive({x: 0, y: 0, flag: 0}) before any effect is registered
ReactiveIdle ==
  /\ target = [k \in Keys |-> 0]
  /\ deps = [k \in Keys |-> <<>>]
  /\ effects = <<>>
  /\ currentEffect = NoEffect
  /\ vnode = NoVNode
  /\ crashed = FALSE
  /\ runs = <<>>
  /\ written = NoWrite
  /\ obs = Unobserved

\* the old inputs are chosen; nothing is diffed yet
InitDiff ==
  /\ pc = "start"
  /\ \/ oldVNode \in DiffNodes \cup {NoVNode} /\ oldChildren = <<>>
     \/ oldVNode = NoVNode /\ oldChildren \in SeqsUpTo(KeyItems, MaxKids)
  /\ newVNode = NoVNode
  /\ patchObj = NullPatch
  /\ newChildren = <<>>
  /\ childPatches = [keyed |-> TRUE, patches |-> <<>>]
  /\ LiveIdle
  /\ ReactiveIdle
  /\ WarnIdle
  /\ HIdle
  /\ NsIdle

\* diff(o, n) with at least one of the two present
Diff ==
  /\ pc = "start"
  /\ oldChildren = <<>>
  /\ \E n \in DiffNodes \cup {NoVNode} :
       /\ ~(oldVNode = NoVNode /\ n = NoVNode)
       /\ newVNode' = n
       /\ patchObj' = diff(oldVNode, n)
  /\ pc' = "diff"
  /\ UNCHANGED <<nsVars, warnVars, hVars, oldVNode, oldChildren, newChildren, childPatches, liveVars, reactiveVars>>

DiffChildren ==
  /\ pc = "start"
  /\ oldVNode = NoVNode
  /\ \E nc \in SeqsUpTo(KeyItems, MaxKids) :
       /\ newChildren' = nc
       /\ childPatches' = diffChildren(oldChildren, nc)
  /\ pc' = "diffChildren"
  /\ UNCHANGED <<nsVars, warnVars, hVars, oldVNode, newVNode, patchObj, oldChildren, liveVars, reactiveVars>>

NextDiff == Diff \/ DiffChildren

SpecDiff == InitDiff /\ [][NextDiff]_vars

----------------------------------------------------------------------------
(* Claims about the differ, checked under SpecDiff *)

Present(v) == v # NoVNode

\* C3: diffing a node against itself (or a structurally identical copy) gives
\* the no-op patch, also for an element with one or more children.
C3_SelfDiffIsNoOp ==
  (pc = "diff" /\ Present(oldVNode) /\ newVNode = oldVNode) => patchObj = NullPatch

\* C4: diff(absent, n) is CREATE carrying exactly n, and diff(n, absent) is
\* REMOVE, for every present node n.
C4_CreateRemove ==
  pc = "diff" =>
    /\ (~Present(oldVNode) /\ Present(newVNode)) =>
         patchObj = [type |-> "CREATE", vnode |-> newVNode]
    /\ (Present(oldVNode) /\ ~Present(newVNode)) => patchObj = [type |-> "REMOVE"]

C4_Witness ==
  /\ pc = "diff"
  /\ ~Present(oldVNode)
  /\ Present(newVNode)
  /\ newVNode.type = "ul"
  /\ Len(newVNode.children) = 2
  /\ patchObj.type = "CREATE"

\* C5: two present nodes of different kinds (TEXT against an element included)
\* diff to REPLACE carrying the new node, whatever their attributes and
\* children are.
C5_KindMismatchReplaces ==
  (pc = "diff" /\ Present(oldVNode) /\ Present(newVNode)
     /\ oldVNode.type # newVNode.type)
  => patchObj = [type |-> "REPLACE", vnode |-> newVNode]

C5_Witness ==
  /\ pc = "diff"
  /\ Present(oldVNode)
  /\ Present(newVNode)
  /\ oldVNode.type = "ul"
  /\ newVNode.type = "ol"
  /\ oldVNode.children # newVNode.children
  /\ patchObj.type = "REPLACE"

\* C6: two TEXT nodes diff to TEXT_SET(new.text) when their texts differ and
\* to the no-op patch when they are equal, never to REPLACE or UPDATE.
C6_TextPair ==
  (pc = "diff" /\ Present(oldVNode) /\ Present(newVNode)
     /\ oldVNode.type = "TEXT" /\ newVNode.type = "TEXT")
  => patchObj = IF oldVNode.text # newVNode.text
                THEN [type |-> "TEXT", text |-> newVNode.text]
                ELSE NullPatch

C6_Witness ==
  /\ pc = "diff"
  /\ Present(oldVNode)
  /\ Present(newVNode)
  /\ oldVNode.type = "TEXT"
  /\ newVNode.type = "TEXT"
  /\ oldVNode.text # newVNode.text
  /\ patchObj.type = "TEXT"

\* the attribute names on which two attribute mappings differ
PropKeysOf(props) == {props[j].key : j \in 1..Len(props)}

DifferingKeys(a, b) ==
  {k \in PropKeysOf(a) \cup PropKeysOf(b) :
     HasProp(a, k) # HasProp(b, k) \/ GetProp(a, k) # GetProp(b, k)}

\* C8: two elements of the same kind with pairwise identical children and
\* attributes that differ in exactly one key (which the new node carries) diff
\* to UPDATE with exactly one SET for that key, no UNSET, and a positional
\* child patch list with one no-op entry per child.  Stated for child lists
\* that are not all keyed, where the differ uses the positional form.
C8_OneAttributeChanged ==
  (/\ pc = "diff" /\ Present(oldVNode) /\ Present(newVNode)
   /\ oldVNode.type = newVNode.type /\ oldVNode.type # "TEXT"
   /\ oldVNode.children = newVNode.children
   /\ \E i \in 1..Len(newVNode.children) : ~IsKeyed(newVNode.children[i])
   /\ Cardinality(DifferingKeys(oldVNode.props, newVNode.props)) = 1
   /\ DifferingKeys(oldVNode.props, newVNode.props) \subseteq PropKeysOf(newVNode.props))
  => /\ patchObj.type = "UPDATE"
     /\ \E k \in DifferingKeys(oldVNode.props, newVNode.props) :
          patchObj.propPatches =
            <<[type |-> "SET_PROP", key |-> k, value |-> GetProp(newVNode.props, k)]>>
     /\ ~patchObj.childPatches.keyed
     /\ Len(patchObj.childPatches.patches) = Len(newVNode.children)
     /\ \A i \in 1..Len(patchObj.childPatches.patches) :
          patchObj.childPatches.patches[i] = NullPatch

\* C9: diffChildren returns the keyed form exactly when every new child
\* carries a non-null key (also when there is no new child), whatever keys the
\* old children carry, and the positional form otherwise.
CarriesKey(c) ==
  \E j \in 1..Len(c.props) :
    c.props[j].key = "key" /\ c.props[j].value.t \notin {"undefined", "null"}

C9_KeyedFormIffAllKeyed ==
  pc = "diffChildren" =>
    (childPatches.keyed <=> \A i \in 1..Len(newChildren) : CarriesKey(newChildren[i]))

C9_Witness ==
  /\ pc = "diffChildren"
  /\ newChildren = <<>>
  /\ Len(oldChildren) = 2
  /\ ~CarriesKey(oldChildren[1])
  /\ childPatches.keyed

\* the new list is the old list of unkeyed text items with one text item
\* put in front
PrependedText ==
  /\ pc = "diffChildren"
  /\ \A i \in 1..Len(oldChildren) : oldChildren[i].type = "TEXT"
  /\ Len(newChildren) = Len(oldChildren) + 1
  /\ newChildren[1].type = "TEXT"
  /\ Tail(newChildren) = oldChildren

\* C10 as stated: prepending one item to an unkeyed list of n text items
\* yields n TEXT_SET entries followed by one CREATE.
C10_PrependAllTextSet ==
  PrependedText =>
    /\ ~childPatches.keyed
    /\ Len(childPatches.patches) = Len(newChildren)
    /\ \A i \in 1..Len(oldChildren) : childPatches.patches[i].type = "TEXT"
    /\ childPatches.patches[Len(newChildren)].type = "CREATE"

\* C10 as amended: in positional form there are exactly max(|old|, |new|)
\* entries, entry i being the patch of old[i] against new[i] (CREATE beyond
\* the old list, REMOVE beyond the new one, REPLACE across kinds, TEXT_SET or
\* no-op for two texts); so prepending one item to an unkeyed list of n text
\* items yields, at each index below n, TEXT_SET(new text) where the two
\* texts differ and the no-op patch where they are equal, followed by one
\* CREATE for the last item.
C10_PositionalEntries ==
  (pc = "diffChildren" /\ ~childPatches.keyed) =>
    /\ Len(childPatches.patches) = Max(Len(oldChildren), Len(newChildren))
    /\ \A i \in 1..Len(childPatches.patches) :
         LET e == childPatches.patches[i]
         IN  /\ i > Len(oldChildren) => e = [type |-> "CREATE", vnode |-> newChildren[i]]
             /\ i > Len(newChildren) => e = [type |-> "REMOVE"]
             /\ (i <= Len(oldChildren) /\ i <= Len(newChildren)) =>
                  /\ oldChildren[i].type # newChildren[i].type =>
                       e = [type |-> "REPLACE", vnode |-> newChildren[i]]
                  /\ (oldChildren[i].type = "TEXT" /\ newChildren[i].type = "TEXT") =>
                       e = IF oldChildren[i].text # newChildren[i].text
                           THEN [type |-> "TEXT", text |-> newChildren[i].text]
                           ELSE NullPatch
    /\ PrependedText =>
         childPatches.patches[Len(newChildren)].type = "CREATE"

C10_Witness ==
  /\ PrependedText
  /\ Len(oldChildren) = 1
  /\ oldChildren[1].text = "B"
  /\ newChildren[1].text = "A"
  /\ childPatches.patches[1] = [type |-> "TEXT", text |-> "A"]
  /\ childPatches.patches[2].type = "CREATE"

\* the old indices whose child carries the key of new child j (1-based)
SameKeyOld(j) ==
  {i \in 0..(Len(oldChildren) - 1) :
     CarriesKey(oldChildren[i + 1]) /\ KeyOf(oldChildren[i + 1]) = KeyOf(newChildren[j])}

\* C11: in keyed form the patch list has one entry per new child, in newIndex
\* order, whose oldIndex is present exactly when an old child carries the
\* same key (patch = diff of that old child against the new child) and absent
\* otherwise (patch = CREATE of the new child); then exactly one REMOVE entry
\* with absent newIndex for each old index no new child matched; no entry has
\* both indices absent and no old index is both matched and removed.
C11_KeyedPatchList ==
  (pc = "diffChildren" /\ childPatches.keyed) =>
    LET P == childPatches.patches
        n == Len(newChildren)
        matched == {P[j].oldIndex : j \in 1..n} \ {NoIndex}
    IN  /\ Len(P) >= n
        /\ \A j \in 1..n :
             /\ P[j].newIndex = j - 1
             /\ IF SameKeyOld(j) = {}
                THEN /\ P[j].oldIndex = NoIndex
                     /\ P[j].patch = [type |-> "CREATE", vnode |-> newChildren[j]]
                ELSE /\ P[j].oldIndex \in SameKeyOld(j)
                     /\ P[j].patch = diff(oldChildren[P[j].oldIndex + 1], newChildren[j])
        /\ \A j \in (n + 1)..Len(P) :
             /\ P[j].newIndex = NoIndex
             /\ P[j].oldIndex \in 0..(Len(oldChildren) - 1)
             /\ P[j].patch = [type |-> "REMOVE"]
        /\ \A i \in 0..(Len(oldChildren) - 1) :
             Cardinality({j \in (n + 1)..Len(P) : P[j].oldIndex = i})
               = IF i \in matched THEN 0 ELSE 1

\* a keyed diff with a matched, a created and a removed child
C11_Witness ==
  /\ pc = "diffChildren"
  /\ childPatches.keyed
  /\ \E j \in 1..Len(childPatches.patches) :
       /\ childPatches.patches[j].oldIndex # NoIndex
       /\ childPatches.patches[j].newIndex # NoIndex
  /\ \E j \in 1..Len(childPatches.patches) : childPatches.patches[j].oldIndex = NoIndex
  /\ \E j \in 1..Len(childPatches.patches) : childPatches.patches[j].newIndex = NoIndex

\* the sequence without its k-th element
Dropped(seq, k) == [j \in 1..(Len(seq) - 1) |-> IF j < k THEN seq[j] ELSE seq[j + 1]]

\* the old list is keyed with distinct keys, and the new list is the old one
\* with one child of a fresh key inserted at position k
InsertedAt(k) ==
  /\ pc = "diffChildren"
  /\ \A i \in 1..Len(oldChildren) : CarriesKey(oldChildren[i])
  /\ \A i, j \in 1..Len(oldChildren) :
       i # j => KeyOf(oldChildren[i]) # KeyOf(oldChildren[j])
  /\ k \in 1..Len(newChildren)
  /\ Dropped(newChildren, k) = oldChildren
  /\ CarriesKey(newChildren[k])
  /\ \A i \in 1..Len(oldChildren) : KeyOf(oldChildren[i]) # KeyOf(newChildren[k])

\* C12: inserting one child with a fresh key into a keyed list with distinct
\* keys, every other child unchanged (with or without children of its own),
\* is reported as exactly one CREATE (for the fresh key), no REMOVE, and the
\* no-op patch for every other key.
C12_InsertOneKeyed ==
  \A k \in 1..(MaxKids + 1) :
    InsertedAt(k) =>
      /\ childPatches.keyed
      /\ Len(childPatches.patches) = Len(newChildren)
      /\ \A j \in 1..Len(childPatches.patches) :
           childPatches.patches[j].patch =
             IF j = k THEN [type |-> "CREATE", vnode |-> newChildren[k]] ELSE NullPatch

----------------------------------------------------------------------------
(* Attribute patching: an element created from oldProps is patched to       *)
(* newProps by patch() (diffProps, then setProp / removeProp per patch).    *)

\* the most attributes on one node
MaxProps == 3

\* attribute names in the order the model's vnodes list them
PropOrder == <<"key", "id", "className", "style", "value", "onClick">>

\* the values each attribute takes
PropValues(key) ==
  CASE key = "key" -> {Str("a")}
    [] key = "id" -> {Str("x"), Str("y"), Undefined}
    [] key = "className" -> {Str(""), Str("done")}
    [] key = "style" -> {Obj(1, <<[key |-> "color", value |-> "red"]>>),
                         Obj(2, <<[key |-> "fontSize", value |-> "12px"]>>)}
    [] key = "value" -> {Str("v")}
    [] key = "onClick" -> {Fn(1), Fn(2)}

\* the props object listing the attributes at the positions in S, with values f
PropsObject(S, f) ==
  LET idx == Ascending(S)
  IN  [j \in 1..Len(idx) |-> [key |-> PropOrder[idx[j]], value |-> f[idx[j]]]]

PropSets ==
  UNION {{PropsObject(S, f) :
            f \in {g \in [S -> UNION {PropValues(PropOrder[i]) : i \in S}] :
                     \A i \in S : g[i] \in PropValues(PropOrder[i])}} :
         S \in {T \in SUBSET (1..Len(PropOrder)) : Cardinality(T) <= MaxProps}}

\* mount's first render: the node materialised and put under the container
Materialise(vn) == appendCreated(createElement(EmptyDoc, vn), Container)

\* the live element has been materialised from oldProps
InitProps ==
  /\ pc = "start"
  /\ DiffIdle
  /\ oldProps \in PropSets
  /\ newProps = <<>>
  /\ doc = Materialise(h("input", oldProps, <<>>))
  /\ domNode = doc.ret
  /\ liveParent = Container
  /\ liveEl = doc.ret
  /\ ReactiveIdle
  /\ WarnIdle
  /\ HIdle
  /\ NsIdle

PatchProps ==
  /\ pc = "start"
  /\ \E b \in PropSets :
       LET w1 == patch(doc, Container, domNode,
                       h("input", oldProps, <<>>), h("input", b, <<>>))
       IN  /\ newProps' = b
           /\ doc' = w1
           /\ domNode' = w1.ret
  /\ pc' = "props"
  /\ UNCHANGED <<nsVars, warnVars, hVars, diffVars, oldProps, liveParent, liveEl, reactiveVars>>

NextProps == PatchProps

SpecProps == InitProps /\ [][NextProps]_vars

\* what can be observed of a live node's attributes: its attributes (an empty
\* class counts as none), inline style, value property and listeners
ToSet(seq) == {seq[j] : j \in 1..Len(seq)}

LiveView(node) ==
  [attrs |-> ToSet(node.attrs) \ {[key |-> "class", value |-> ""]},
   style |-> ToSet(node.style),
   value |-> node.value,
   listeners |-> ToSet(node.listeners)]

\* C7: applying the patches of diffProps(A, B) to a live node initialised
\* from A leaves it with exactly the key/value pairs of B, that is, as a live
\* node initialised from B: no key of A missing from B survives and every key
\* of B is present with B's value.
C7_PatchedPropsAreB ==
  pc = "props" =>
    /\ ~doc.threw
    /\ LiveView(doc.nodes[domNode]) =
         LiveView(LET w == Materialise(h("input", newProps, <<>>)) IN w.nodes[w.ret])

\* nothing named key is on the node: no attribute, style entry, handler or
\* listener
NoKeyOn(node) ==
  /\ \A j \in 1..Len(node.attrs) : node.attrs[j].key # "key"
  /\ \A j \in 1..Len(node.style) : node.style[j].key # "key"
  /\ \A j \in 1..Len(node.handlers) : node.handlers[j].key # "key"
  /\ \A j \in 1..Len(node.listeners) : node.listeners[j].event # "key"

\* C16: over createElement and patch the reserved attribute "key" is never
\* set on a live node: a vnode carrying a key, or a SET patch for "key",
\* leaves no attribute, property or listener named key on it.
C16_KeyNeverOnLiveNode == \A id \in 1..Len(doc.nodes) : NoKeyOn(doc.nodes[id])

\* a key is given to a live node created without one, together with an id
C16_Witness ==
  /\ pc = "props"
  /\ ~HasProp(oldProps, "key")
  /\ HasProp(newProps, "key")
  /\ HasProp(newProps, "id")
  /\ \E e \in ToSet(doc.log) : e.op = "setAttribute" /\ e.node = domNode

----------------------------------------------------------------------------
(* The patcher on its own: a live tree materialised from oldVNode is        *)
(* patched to newVNode by one call of patch().                              *)

\* sibling candidates of the patcher: texts, keyed and unkeyed elements of two
\* kinds, the same key on different kinds and contents, a nested keyed list,
\* an element with a class, a style object and an event handler
PatchItems ==
  {createTextVNode(t) : t \in Texts} \cup
  { h("li", <<keyProp(Str("a"))>>, <<createTextVNode("A")>>),
    h("li", <<keyProp(Str("c")), classProp("completed"),
              [key |-> "style", value |-> Obj(1, <<[key |-> "color", value |-> "red"]>>)],
              [key |-> "onClick", value |-> Fn(1)]>>,
      <<createTextVNode("A")>>),
    h("p", <<keyProp(Str("a"))>>, <<createTextVNode("B")>>),
    h("li", <<>>, <<createTextVNode("A")>>),
    h("ul", <<keyProp(Str("b"))>>,
      <<h("li", <<keyProp(Str("a"))>>, <<>>), h("li", <<keyProp(Str("b"))>>, <<>>)>>),
    h("ul", <<keyProp(Str("b"))>>,
      <<h("li", <<keyProp(Str("b"))>>, <<>>), h("li", <<keyProp(Str("a"))>>, <<>>)>>) }

\* the keys of the keyed children are pairwise distinct, at every depth
RECURSIVE DistinctKeys(_)
DistinctKeys(vn) ==
  /\ \A i, j \in 1..Len(vn.children) :
       (i # j /\ IsKeyed(vn.children[i]) /\ IsKeyed(vn.children[j]))
         => KeyOf(vn.children[i]) # KeyOf(vn.children[j])
  /\ \A i \in 1..Len(vn.children) : DistinctKeys(vn.children[i])

\* the vnodes the patcher is run on; the keys of siblings are unique in
\* most ("Keys should be unique and stable"), in some two siblings carry the
\* same key
PatchNodes ==
  PatchItems \cup {h("ul", <<>>, c) : c \in SeqsUpTo(PatchItems, MaxKids)}

\* the live tree has been materialised from oldVNode, as mount's first render
\* does
InitPatch ==
  /\ pc = "start"
  /\ oldVNode \in PatchNodes
  /\ newVNode = NoVNode
  /\ patchObj = NullPatch
  /\ oldChildren = <<>>
  /\ newChildren = <<>>
  /\ childPatches = [keyed |-> TRUE, patches |-> <<>>]
  /\ oldProps = <<>>
  /\ newProps = <<>>
  /\ doc = Materialise(oldVNode)
  /\ domNode = doc.ret
  /\ liveParent = Container
  /\ liveEl = doc.ret
  /\ ReactiveIdle
  /\ WarnIdle
  /\ HIdle
  /\ NsIdle

Patch ==
  /\ pc = "start"
  /\ \E n \in PatchNodes :
       LET w1 == patch(doc, Container, domNode, oldVNode, n)
       IN  /\ newVNode' = n
           /\ patchObj' = diff(oldVNode, n)
           /\ doc' = w1
           /\ domNode' = w1.ret
  /\ pc' = "patch"
  /\ UNCHANGED <<nsVars, warnVars, hVars, oldVNode, oldChildren, newChildren, childPatches,
                 oldProps, newProps, liveParent, liveEl, reactiveVars>>

NextPatch == Patch

SpecPatch == InitPatch /\ [][NextPatch]_vars

\* the structure of a live tree: node kind, text, and the children's
\* structures in order
RECURSIVE Shape(_, _)
Shape(nodes, id) ==
  [tag |-> nodes[id].tag, text |-> nodes[id].text,
   children |-> [j \in 1..Len(nodes[id].childNodes) |->
                   Shape(nodes, nodes[id].childNodes[j])]]

\* the structure createElement gives a vnode
ShapeOfVNode(vn) == LET w == createElement(EmptyDoc, vn) IN Shape(w.nodes, w.ret)

\* C2: for well-formed old and new nodes whose sibling keys are pairwise
\* distinct, patching the live node materialised from old leaves at its
\* position a live tree structurally identical to createElement(new).
C2_PatchYieldsNewTree ==
  (pc = "patch" /\ DistinctKeys(oldVNode) /\ DistinctKeys(newVNode)) =>
    /\ ~doc.threw
    /\ Len(doc.nodes[Container].childNodes) = 1
    /\ Shape(doc.nodes, doc.nodes[Container].childNodes[1]) = ShapeOfVNode(newVNode)

\* a keyed pair is swapped around an unchanged nested list's sibling
C2_Witness ==
  /\ pc = "patch"
  /\ DistinctKeys(oldVNode)
  /\ DistinctKeys(newVNode)
  /\ oldVNode.type = "ul"
  /\ newVNode.type = "ul"
  /\ Len(oldVNode.children) = 2
  /\ Len(newVNode.children) = 2
  /\ \A i \in 1..2 : IsKeyed(oldVNode.children[i]) /\ IsKeyed(newVNode.children[i])
  /\ KeyOf(oldVNode.children[1]) = KeyOf(newVNode.children[2])
  /\ KeyOf(oldVNode.children[2]) = KeyOf(newVNode.children[1])
  /\ oldVNode.children[1].type # newVNode.children[2].type
  /\ \E e \in ToSet(doc.log) : e.op = "insertBefore"
  /\ Shape(doc.nodes, doc.nodes[Container].childNodes[1]) = ShapeOfVNode(newVNode)

----------------------------------------------------------------------------
(* Sibling lists: the children of a live list are patched, all together by  *)
(* a keyed or a positional patch of the list, or one of them by a call of   *)
(* patch on it.                                                             *)

\* the longest sibling list
MaxSiblings == 3

\* keyed siblings: a key on two kinds and with two contents, further keys
KeyedItems ==
  { h("li", <<keyProp(Str("a"))>>, <<createTextVNode("A")>>),
    h("li", <<keyProp(Str("a"))>>, <<createTextVNode("B")>>),
    h("p", <<keyProp(Str("a"))>>, <<>>),
    h("li", <<keyProp(Str("b"))>>, <<>>),
    h("li", <<keyProp(Str("c"))>>, <<>>),
    h("li", <<keyProp(Str("d"))>>, <<>>) }

\* the old list may also hold an unkeyed child
SiblingItems == KeyedItems \cup {createTextVNode("A")}

\* the lists over S of at most n children whose keys are pairwise distinct
DistinctKeyLists(S, n) == {c \in SeqsUpTo(S, n) : DistinctKeys(h("ul", <<>>, c))}

\* the live list has been materialised from oldChildren
InitSiblings ==
  /\ pc = "start"
  /\ oldChildren \in DistinctKeyLists(SiblingItems, MaxSiblings)
  /\ oldVNode = h("ul", <<>>, oldChildren)
  /\ newVNode = NoVNode
  /\ patchObj = NullPatch
  /\ newChildren = <<>>
  /\ childPatches = [keyed |-> TRUE, patches |-> <<>>]
  /\ oldProps = <<>>
  /\ newProps = <<>>
  /\ doc = Materialise(oldVNode)
  /\ domNode = doc.ret
  /\ liveParent = Container
  /\ liveEl = doc.ret
  /\ ReactiveIdle
  /\ WarnIdle
  /\ HIdle
  /\ NsIdle

\* patch(container, list, oldVNode, newVNode) with an all-keyed new list
PatchKeyed ==
  /\ pc = "start"
  /\ \E nc \in DistinctKeyLists(KeyedItems, MaxSiblings) :
       LET w1 == patch(doc, liveParent, liveEl, oldVNode, h("ul", <<>>, nc))
       IN  /\ newChildren' = nc
           /\ newVNode' = h("ul", <<>>, nc)
           /\ childPatches' = diffChildren(oldChildren, nc)
           /\ patchObj' = diff(oldVNode, h("ul", <<>>, nc))
           /\ doc' = w1
           /\ domNode' = w1.ret
  /\ pc' = "keyed"
  /\ UNCHANGED <<nsVars, warnVars, hVars, oldVNode, oldChildren, oldProps, newProps, liveParent, liveEl, reactiveVars>>

\* patch(list, child, oldVNode, newVNode) on one child of the list, or with no
\* current node and no old vnode
PatchChild ==
  /\ pc = "start"
  /\ \E i \in 0..Len(oldChildren), n \in SiblingItems \cup {createTextVNode("B"), NoVNode} :
       LET el == IF i = 0 THEN NoNode ELSE doc.nodes[domNode].childNodes[i]
           o == IF i = 0 THEN NoVNode ELSE oldChildren[i]
           w1 == patch(doc, domNode, el, o, n)
       IN  /\ ~(o = NoVNode /\ n = NoVNode)
           /\ liveParent' = domNode
           /\ liveEl' = el
           /\ oldVNode' = o
           /\ newVNode' = n
           /\ patchObj' = diff(o, n)
           /\ doc' = w1
           /\ domNode' = w1.ret
  /\ pc' = "child"
  /\ UNCHANGED <<nsVars, warnVars, hVars, oldChildren, newChildren, childPatches, oldProps, newProps, reactiveVars>>

\* children of a positional list: unkeyed ones and a keyed one
PositionalItems ==
  { createTextVNode("A"),
    createTextVNode("B"),
    h("li", <<>>, <<createTextVNode("A")>>),
    h("li", <<keyProp(Str("a"))>>, <<createTextVNode("A")>>) }

\* patch(container, list, oldVNode, newVNode) with a new list that is not
\* all keyed
PatchPositional ==
  /\ pc = "start"
  /\ \E nc \in {c \in SeqsUpTo(PositionalItems, MaxSiblings) :
                  ~diffChildren(oldChildren, c).keyed} :
       LET w1 == patch(doc, liveParent, liveEl, oldVNode, h("ul", <<>>, nc))
       IN  /\ newChildren' = nc
           /\ newVNode' = h("ul", <<>>, nc)
           /\ childPatches' = diffChildren(oldChildren, nc)
           /\ patchObj' = diff(oldVNode, h("ul", <<>>, nc))
           /\ doc' = w1
           /\ domNode' = w1.ret
  /\ pc' = "positional"
  /\ UNCHANGED <<nsVars, warnVars, hVars, oldVNode, oldChildren, oldProps, newProps, liveParent, liveEl, reactiveVars>>

NextSiblings == PatchKeyed \/ PatchChild \/ PatchPositional

SpecSiblings == InitSiblings /\ [][NextSiblings]_vars

\* the live children of the list before the patch, in order
OldLive == LET w == Materialise(h("ul", <<>>, oldChildren)) IN w.nodes[w.ret].childNodes

\* C13: for old and new sibling lists with pairwise distinct keys, every new
\* child keyed, after the keyed patch the live child sequence has the length
\* of newChildren, its i-th node represents newChildren[i], and a key present
\* in both lists with the same kind keeps its live node (moved, not
\* recreated).
C13_KeyedOrderAndIdentity ==
  pc = "keyed" =>
    LET live == doc.nodes[domNode].childNodes
    IN  /\ ~doc.threw
        /\ domNode = liveEl
        /\ Len(live) = Len(newChildren)
        /\ \A j \in 1..Len(newChildren) :
             /\ doc.nodes[live[j]].parent = domNode
             /\ Shape(doc.nodes, live[j]) = ShapeOfVNode(newChildren[j])
        /\ \A i \in 1..Len(oldChildren), j \in 1..Len(newChildren) :
             ( /\ CarriesKey(oldChildren[i])
               /\ KeyOf(oldChildren[i]) = KeyOf(newChildren[j])
               /\ oldChildren[i].type = newChildren[j].type )
             => live[j] = OldLive[i]

\* three kept keys change places while a child is removed and one is created
C13_Witness ==
  /\ pc = "keyed"
  /\ Len(oldChildren) = 3
  /\ Len(newChildren) = 3
  /\ \E i \in 1..3 : ~CarriesKey(oldChildren[i])
  /\ \E i, j \in 1..3 :
       /\ i # j
       /\ CarriesKey(oldChildren[i])
       /\ KeyOf(oldChildren[i]) = KeyOf(newChildren[j])
       /\ doc.nodes[domNode].childNodes[j] = OldLive[i]
  /\ \E e \in ToSet(doc.log) : e.op = "removeChild"

\* the size of the largest set among Ss
Max2Card(Ss) == CHOOSE n \in 0..MaxSiblings : (\E S \in Ss : Cardinality(S) = n)
                                              /\ (\A S \in Ss : Cardinality(S) <= n)

\* the new list is a permutation of the keyed old list, contents unchanged
Permuted ==
  /\ pc = "keyed"
  /\ Len(newChildren) = Len(oldChildren)
  /\ \A i \in 1..Len(oldChildren) : CarriesKey(oldChildren[i])
  /\ \A j \in 1..Len(newChildren) : \E i \in 1..Len(oldChildren) : oldChildren[i] = newChildren[j]

\* the old position of the child at new position j
OldPositionOf(j) == CHOOSE i \in 1..Len(oldChildren) : oldChildren[i] = newChildren[j]

\* the children that can all stay where they are: new positions whose old
\* positions ascend
StaysInOrder(S) == \A j1, j2 \in S : j1 < j2 => OldPositionOf(j1) < OldPositionOf(j2)

\* the fewest single-node moves turning the old order into the new one:
\* every child outside a longest ascending run is moved once
MinMoves ==
  Len(newChildren)
    - Max2Card({S \in SUBSET (1..Len(newChildren)) : StaysInOrder(S)})

\* the insertBefore calls made on the live tree
MovesMade == Cardinality({k \in 1..Len(doc.log) : doc.log[k].op = "insertBefore"})

\* C14: for a keyed list whose new order is a permutation of the old one, the
\* number of move-before relocations the patcher executes equals the minimum
\* number of single-node moves that turns the old order into the new one.
C14_FewestMoves == Permuted => MovesMade = MinMoves

\* the document before the patch
Before == Materialise(h("ul", <<>>, oldChildren))

\* a node the patch has materialised
Fresh(node) == node # NoNode /\ node > Len(Before.nodes)

\* C15: patch returns the live node it was given for a no-op, a TEXT_SET and
\* an UPDATE; for REPLACE a freshly materialised node at the former position
\* of the current node under the parent; for CREATE a freshly materialised
\* node that is a child of the parent; for REMOVE it returns absent and the
\* current node is no longer a child of the parent.
C15_PatchReturns ==
  pc = "child" =>
    LET kids == doc.nodes[liveParent].childNodes
        was == Before.nodes[liveParent].childNodes
    IN  /\ ~doc.threw
        /\ CASE patchObj = NullPatch -> domNode = liveEl /\ kids = was
             [] patchObj.type \in {"TEXT", "UPDATE"} -> domNode = liveEl /\ kids = was
             [] patchObj.type = "REPLACE" ->
                  /\ Fresh(domNode)
                  /\ kids = [k \in 1..Len(was) |-> IF was[k] = liveEl THEN domNode ELSE was[k]]
                  /\ Shape(doc.nodes, domNode) = ShapeOfVNode(newVNode)
             [] patchObj.type = "CREATE" ->
                  /\ Fresh(domNode)
                  /\ kids = Append(was, domNode)
                  /\ doc.nodes[domNode].parent = liveParent
                  /\ Shape(doc.nodes, domNode) = ShapeOfVNode(newVNode)
             [] patchObj.type = "REMOVE" ->
                  /\ domNode = NoNode
                  /\ kids = Without(was, liveEl)
                  /\ \A k \in 1..Len(kids) : kids[k] # liveEl

\* the middle child of three is replaced by a node of another kind
C15_Witness ==
  /\ pc = "child"
  /\ patchObj # NullPatch
  /\ patchObj.type = "REPLACE"
  /\ Len(oldChildren) = 3
  /\ liveEl = OldLive[2]
  /\ doc.nodes[liveParent].childNodes[2] = domNode

----------------------------------------------------------------------------
(* reactive.js and mount.js.                                                *)
(* A write runs its whole cascade (trigger, effects, their writes, render,  *)
(* diff, patch) synchronously, so it is one step; the cascade is computed   *)
(* on a machine record m holding the store, the effects, the document and   *)
(* mount's closure variables, plus: acc, the value the running function     *)
(* read last; depth, the number of effect runs on the call stack; threw,    *)
(* set when the stack overflows or a DOM call throws.                       *)
(* Beside the program's state the machine keeps a record of what happens:   *)
(* runs counts the runs of each effect; stack holds, for every run in       *)
(* progress, the effect, the keys it has read, whether the same effect was  *)
(* started again meanwhile, and the write that started it; cause is the     *)
(* write whose subscribers are being run; clock numbers the writes and      *)
(* lastSet[k] is the number of the last write to k; obs collects the        *)
(* observations.  None of these is read by the program.                     *)

\* the values a reactive property takes are 0..MaxVal
MaxVal == 1

\* the most effects registered besides the render effect
MaxEffects == 2

\* the deepest nesting of effect runs the call stack holds
MaxDepth == 6

Vals == 0..MaxVal

\* no write: the run was started by effect() itself
NoCause == [key |-> "", value |-> 0, at |-> 0, subs |-> <<>>]

\* a run of effect that starts, cause being the write that started it
Frame(effect, cause) ==
  [effect |-> effect, reads |-> {}, reentered |-> FALSE, resumed |-> FALSE,
   cause |-> cause]

\* the effects in the subscriber set of key k
Subscribers(ds, k) == {ds[k][j] : j \in 1..Len(ds[k])}

\* the keys whose subscriber set holds effect e
SubscribedKeys(ds, e) == {k \in DOMAIN ds : \E j \in 1..Len(ds[k]) : ds[k][j] = e}

\* e is in the subscriber set of k exactly if that set is in e.deps
IndexAgrees(ds, es) ==
  \A e \in 1..Len(es) :
    SubscribedKeys(ds, e) = {es[e].deps[j] : j \in 1..Len(es[e].deps)}

\* the effect of the innermost run in progress (NoEffect: none)
Innermost(stack) == IF stack = <<>> THEN NoEffect ELSE stack[Len(stack)].effect

\* the slot names the innermost run in progress
observedSlot(m) ==
  [m EXCEPT !.obs.slot = @ /\ m.currentEffect = Innermost(m.stack)]

\* the run in progress has read key: note the key, whether the value read
\* is the one whose write started the run and, when a nested run has
\* completed before, whether the read subscribed the run's effect
observedRead(m, key) ==
  IF m.stack = <<>> THEN observedSlot(m)
  ELSE LET top == m.stack[Len(m.stack)]
           isCause == top.cause.key = key
           same == m.target[key] = top.cause.value
       IN  [observedSlot(m) EXCEPT
              !.stack[Len(m.stack)].reads = @ \cup {key},
              !.obs.fresh = @ /\ (isCause => same),
              !.obs.freshLatest =
                 @ /\ ((isCause /\ m.lastSet[key] = top.cause.at) => same),
              !.obs.resumedKeys = IF top.resumed THEN @ \cup {key} ELSE @,
              !.obs.resumed =
                 @ /\ (top.resumed => top.effect \in Subscribers(m.deps, key))]

\* track(key) that adds the effect to the subscriber set only on its first
\* read of any key
track_firstOnly(m, key) ==
  IF m.currentEffect # NoEffect /\ m.effects[m.currentEffect].deps = <<>>
  THEN [m EXCEPT !.deps[key] = Append(@, m.currentEffect),
                 !.effects[m.currentEffect].deps = Append(@, key)]
  ELSE m

\* track(key)
track(m, key) ==
  IF m.currentEffect # NoEffect
  THEN [m EXCEPT !.deps[key] = IF \E j \in 1..Len(@) : @[j] = m.currentEffect
                               THEN @ ELSE Append(@, m.currentEffect),
                 !.effects[m.currentEffect].deps = Append(@, key)]
  ELSE m

\* the get trap of the proxy: track(key), then target[key]
get(m, key) ==
  IF m.threw THEN m
  ELSE [observedRead(track(m, key), key) EXCEPT !.acc = m.target[key]]

\* cleanup(effect)
RECURSIVE cleanupFrom(_, _, _)
cleanupFrom(m, effect, i) ==
  IF i >= Len(m.effects[effect].deps)
  THEN [m EXCEPT !.effects[effect].deps = <<>>]
  ELSE cleanupFrom([m EXCEPT !.deps[m.effects[effect].deps[i + 1]] = Without(@, effect)],
                   effect, i + 1)

\* cleanup that only empties effect.deps: the subscriptions stay
cleanup_keepSubscribed(m, effect) == [m EXCEPT !.effects[effect].deps = <<>>]

\* cleanup without effect.deps.length = 0: the list keeps the sets it left
cleanup_keepList(m, effect) ==
  [cleanupFrom(m, effect, 0) EXCEPT !.effects[effect].deps = m.effects[effect].deps]

cleanup(m, effect) == cleanupFrom(m, effect, 0)

\* the root components of the model; each reads the store through get
Components == {"counter", "guarded", "list", "ids"}

keyedLi(k, t) == h("li", <<keyProp(Str(k))>>, <<createTextVNode(t)>>)

\* the keyed list shown for x, y: x orders it, y puts an item in front
ListChildren(x, y) ==
  (IF y = 0 THEN <<>> ELSE <<keyedLi("c", NumStr(y))>>) \o
  (CASE x = 0 -> <<keyedLi("a", "A"), keyedLi("b", "B")>>
     [] x = 1 -> <<keyedLi("b", "B"), keyedLi("a", "A")>>
     [] OTHER -> <<keyedLi("b", "B")>>)

\* rootComponent(): the machine after its reads, and the vnode in m.out
rootComponent(m, comp) ==
  CASE comp = "counter" ->
         LET m1 == get(m, "x")
         IN  [m1 EXCEPT !.out = h("div", <<>>, <<createTextVNode(NumStr(m1.acc))>>)]
    [] comp = "guarded" ->
         LET m1 == get(m, "flag")
             m2 == get(m1, "x")
         IN  IF m1.acc # 0
             THEN [m2 EXCEPT !.out = h("p", <<>>, <<createTextVNode(NumStr(m2.acc))>>)]
             ELSE [m1 EXCEPT !.out = h("span", <<>>, <<createTextVNode("off")>>)]
    [] comp = "list" ->
         LET m1 == get(m, "x")
             m2 == get(m1, "y")
         IN  [m2 EXCEPT !.out = h("ul", <<>>, ListChildren(m1.acc, m2.acc))]
    [] comp = "ids" ->
         LET m1 == get(m, "x")
             m2 == get(m1, "y")
         IN  [m2 EXCEPT !.out = h("ul", <<>>, <<keyedLi(NumStr(m1.acc), "X"),
                                                keyedLi(NumStr(m2.acc), "Y")>>)]

\* the first render: vnode = newVNode; domNode = createElement(vnode);
\* container.appendChild(domNode), w2 being the document after it
firstRendered(m1, w2) ==
  [m1 EXCEPT !.vnode = m1.out, !.domNode = w2.ret, !.doc = w2, !.threw = w2.threw]

\* a later render: domNode = patch(...); vnode = newVNode, w1 being the
\* document after patch; neither is assigned when patch throws
patched(m1, w1) ==
  IF w1.threw THEN [m1 EXCEPT !.doc = w1, !.threw = TRUE]
  ELSE [m1 EXCEPT !.domNode = w1.ret, !.vnode = m1.out, !.doc = w1]

\* update after rootComponent() has returned newVNode in m1.out
rendered(m1) ==
  IF m1.threw THEN m1
  ELSE IF m1.vnode = NoVNode
  THEN firstRendered(m1, appendCreated(createElement(m1.doc, m1.out), Container))
  ELSE patched(m1, patch(m1.doc, Container, m1.domNode, m1.vnode, m1.out))

\* mount's update()
update(m, comp) == rendered(rootComponent(m, comp))

\* the effect functions of the model besides update: straight-line programs
\* over the accumulator
\*   get k    acc = state[k]
\*   getIf k  if (acc) acc = state[k]
\*   add n    acc = (acc + n) % (MaxVal + 1)
\*   set k    state[k] = acc
\*   setIf k n  if (acc) state[k] = n
Ins(op, key, n) == [op |-> op, key |-> key, n |-> n]

Programs ==
  { <<Ins("get", "x", 0), Ins("set", "y", 0)>>,
    <<Ins("get", "y", 0), Ins("add", "", 1), Ins("set", "x", 0)>>,
    <<Ins("get", "flag", 0), Ins("getIf", "x", 0)>>,
    <<Ins("get", "flag", 0), Ins("set", "x", 0)>>,
    <<Ins("get", "x", 0), Ins("add", "", 1), Ins("set", "x", 0)>>,
    <<Ins("get", "y", 0), Ins("setIf", "x", 0)>>,
    <<Ins("get", "x", 0), Ins("getIf", "flag", 0), Ins("set", "y", 0)>> }

RECURSIVE wrappedEffect(_, _)
RECURSIVE triggerFrom(_, _, _)
RECURSIVE execFrom(_, _, _)

\* trigger's loop without the test against currentEffect
triggerFrom_runCurrent(m, effectsToRun, i) ==
  IF i >= Len(effectsToRun) \/ m.threw THEN m
  ELSE triggerFrom(wrappedEffect(m, effectsToRun[i + 1]), effectsToRun, i + 1)

\* trigger's loop leaving after the first subscriber
triggerFrom_firstOnly(m, effectsToRun, i) ==
  IF i >= 1 \/ i >= Len(effectsToRun) \/ m.threw THEN m
  ELSE triggerFrom(IF effectsToRun[i + 1] # m.currentEffect
                   THEN wrappedEffect(m, effectsToRun[i + 1]) ELSE m,
                   effectsToRun, i + 1)

\* effectsToRun.forEach(effect => { if (effect !== currentEffect) effect() })
triggerFrom(m, effectsToRun, i) ==
  IF i >= Len(effectsToRun) \/ m.threw THEN m
  ELSE triggerFrom(IF effectsToRun[i + 1] # m.currentEffect
                   THEN wrappedEffect(m, effectsToRun[i + 1]) ELSE m,
                   effectsToRun, i + 1)

\* trigger(key) that leaves the subscribers for later instead of calling them
trigger_deferred(m, key) == m

\* trigger(key) calling every effect registered, subscribed to key or not
trigger_everyEffect(m, key) == triggerFrom(m, [e \in 1..Len(m.effects) |-> e], 0)

\* trigger(key)
trigger(m, key) == triggerFrom(m, m.deps[key], 0)

\* key is about to be written: number the write; its subscribers, if any
\* are run, are run because of it
observedWrite(m, key, value) ==
  [m EXCEPT !.clock = @ + 1,
            !.lastSet[key] = m.clock + 1,
            !.cause = [key |-> key, value |-> value, at |-> m.clock + 1,
                       subs |-> m.deps[key]],
            !.obs.changed = IF m.target[key] # value THEN @ \cup {key} ELSE @]

\* trigger(key) has returned m2 from m1: note whether every effect subscribed
\* at the write, but the active one, has run since
observedNotify(m1, m2, key) ==
  IF m2.threw THEN m2
  ELSE [m2 EXCEPT !.obs.notified =
          @ /\ \A j \in 1..Len(m1.deps[key]) :
                 m1.deps[key][j] # m1.currentEffect =>
                   m2.runs[m1.deps[key][j]] > m1.runs[m1.deps[key][j]]]

\* the set trap without the comparison of old and new value
set_alwaysTrigger(m, key, value) ==
  IF m.threw THEN m
  ELSE trigger([observedWrite(m, key, value) EXCEPT !.target[key] = value], key)

\* the set trap notifying the subscribers before it stores the value
set_notifyFirst(m, key, value) ==
  IF m.threw THEN m
  ELSE IF m.target[key] # value
       THEN [trigger(observedWrite(m, key, value), key) EXCEPT !.target[key] = value]
       ELSE observedWrite(m, key, value)

\* the set trap of the proxy
set(m, key, value) ==
  IF m.threw THEN m
  ELSE LET oldValue == m.target[key]
           m1 == [observedWrite(m, key, value) EXCEPT !.target[key] = value]
       IN  IF oldValue # value THEN observedNotify(m1, trigger(m1, key), key) ELSE m1

\* a program's instructions from index i on
execFrom(m, prog, i) ==
  IF i >= Len(prog) \/ m.threw THEN m
  ELSE LET ins == prog[i + 1]
           m1 == CASE ins.op = "get" -> get(m, ins.key)
                   [] ins.op = "getIf" -> IF m.acc # 0 THEN get(m, ins.key) ELSE m
                   [] ins.op = "add" -> [m EXCEPT !.acc = (m.acc + ins.n) % (MaxVal + 1)]
                   [] ins.op = "set" -> [set(m, ins.key, m.acc) EXCEPT !.acc = m.acc]
                   [] ins.op = "setIf" -> IF m.acc # 0
                                          THEN [set(m, ins.key, ins.n) EXCEPT !.acc = m.acc]
                                          ELSE m
       IN  execFrom(m1, prog, i + 1)

\* fn() of an effect
runFn(m, fn) ==
  IF fn.kind = "update" THEN update(m, fn.comp) ELSE execFrom(m, fn.prog, 0)

\* a run of effect starts while the runs of stack are in progress
reentering(stack, effect) ==
  [j \in 1..Len(stack) |->
     IF stack[j].effect = effect THEN [stack[j] EXCEPT !.reentered = TRUE] ELSE stack[j]]

\* effect is called, by trigger for the write m.cause or by effect()
observedCall(m, effect) ==
  LET called == observedSlot(m)
      forWrite == m.cause # NoCause
  IN  [called EXCEPT
         !.obs.alone = @ /\ \A j \in 1..Len(m.stack) : m.stack[j].effect # effect,
         !.obs.notInnermost = @ /\ Innermost(m.stack) # effect,
         !.obs.subscribed =
            @ /\ (forWrite => effect \in Subscribers(m.deps, m.cause.key)),
         !.obs.wasSubscribed =
            @ /\ (forWrite => \E j \in 1..Len(m.cause.subs) : m.cause.subs[j] = effect)]

\* a run of effect starts
observedStart(m, effect) ==
  [m EXCEPT !.runs[effect] = @ + 1,
            !.stack = Append(reentering(@, effect), Frame(effect, m.cause)),
            !.obs.agree = @ /\ IndexAgrees(m.deps, m.effects)]

\* the run on top of the stack has completed: compare the keys it read with
\* the subscriber sets that hold its effect
observedEnd(m) ==
  IF m.threw \/ m.stack = <<>> THEN m
  ELSE LET top == m.stack[Len(m.stack)]
           exact == SubscribedKeys(m.deps, top.effect) = top.reads
       IN  [observedSlot(m) EXCEPT
                     !.stack = [j \in 1..(Len(@) - 1) |->
                                  IF j = Len(@) - 1 THEN [@[j] EXCEPT !.resumed = TRUE]
                                  ELSE @[j]],
                     !.cause = top.cause,
                     !.obs.exact = @ /\ exact,
                     !.obs.exactOnce = @ /\ (top.reentered \/ exact),
                     !.obs.agree = @ /\ IndexAgrees(m.deps, m.effects)]

\* currentEffect = wrappedEffect; fn()
runCurrent(m1, effect) ==
  runFn([observedStart(m1, effect) EXCEPT !.currentEffect = effect, !.depth = @ + 1],
        m1.effects[effect].fn)

\* the finally block emptying the slot instead of restoring it
restored_toNone(m2, prevEffect, depth) ==
  [observedEnd(m2) EXCEPT !.currentEffect = NoEffect, !.depth = depth]

\* the assignment after fn() without try/finally: skipped when fn throws
restored_unlessThrown(m2, prevEffect, depth) ==
  [observedEnd(m2) EXCEPT !.currentEffect = IF m2.threw THEN @ ELSE prevEffect,
                          !.depth = depth]

\* finally { currentEffect = prevEffect }, and the return
restored(m2, prevEffect, depth) ==
  [observedEnd(m2) EXCEPT !.currentEffect = prevEffect, !.depth = depth]

\* wrappedEffect() without its finally block: the effect stays current
wrappedEffect_noRestore(m, effect) ==
  IF m.threw THEN m
  ELSE IF m.depth >= MaxDepth THEN [m EXCEPT !.threw = TRUE]
  ELSE restored(runCurrent(cleanup(observedCall(m, effect), effect), effect), effect, m.depth)

\* wrappedEffect() that returns at once when the effect is already running
wrappedEffect_guarded(m, effect) ==
  IF m.threw THEN m
  ELSE IF \E j \in 1..Len(m.stack) : m.stack[j].effect = effect THEN m
  ELSE IF m.depth >= MaxDepth THEN [m EXCEPT !.threw = TRUE]
  ELSE restored(runCurrent(cleanup(observedCall(m, effect), effect), effect), m.currentEffect, m.depth)

\* wrappedEffect(): cleanup, run fn as the current effect, and restore the
\* previous current effect also when fn throws
wrappedEffect(m, effect) ==
  IF m.threw THEN m
  ELSE IF m.depth >= MaxDepth THEN [m EXCEPT !.threw = TRUE]
  ELSE restored(runCurrent(cleanup(observedCall(m, effect), effect), effect), m.currentEffect, m.depth)

\* effect(fn) without the call of wrappedEffect: fn runs on the first write
effect_noRun(m, fn) ==
  [m EXCEPT !.effects = Append(@, [fn |-> fn, deps |-> <<>>]),
            !.runs = Append(@, 0)]

\* effect(fn)
effect(m, fn) ==
  wrappedEffect([m EXCEPT !.effects = Append(@, [fn |-> fn, deps |-> <<>>]),
                          !.runs = Append(@, 0)],
                Len(m.effects) + 1)

----------------------------------------------------------------------------
(* The mounted application *)

\* live nodes no longer reachable from the container are garbage: the nodes
\* in document order from the container
RECURSIVE Preorder(_, _)
RECURSIVE PreorderAll(_, _, _)
PreorderAll(nodes, kids, i) ==
  IF i > Len(kids) THEN <<>>
  ELSE Preorder(nodes, kids[i]) \o PreorderAll(nodes, kids, i + 1)

Preorder(nodes, id) == <<id>> \o PreorderAll(nodes, nodes[id].childNodes, 1)

\* the document with its garbage collected and its nodes renumbered in
\* document order, the mutation log emptied
Collected(w) ==
  LET order == Preorder(w.nodes, Container)
      newId(old) == IF old = NoNode THEN NoNode ELSE IndexOf(order, old) + 1
  IN  [nodes |-> [j \in 1..Len(order) |->
                    [w.nodes[order[j]] EXCEPT
                       !.childNodes = [c \in 1..Len(@) |-> newId(@[c])],
                       !.parent = newId(@)]],
       threw |-> w.threw, log |-> <<>>, ret |-> NoNode]

\* the machine a step starts from
Machine ==
  [target |-> target, deps |-> deps, effects |-> effects,
   currentEffect |-> currentEffect, doc |-> doc, vnode |-> vnode, domNode |-> domNode,
   runs |-> [e \in 1..Len(effects) |-> 0],
   stack |-> <<>>, cause |-> NoCause, clock |-> 0, lastSet |-> [k \in Keys |-> 0],
   obs |-> Unobserved,
   acc |-> 0, out |-> NoVNode, depth |-> 0, threw |-> FALSE]

\* the state a step ends in
Becomes(m) ==
  /\ target' = m.target
  /\ deps' = m.deps
  /\ effects' = m.effects
  /\ currentEffect' = m.currentEffect
  /\ vnode' = m.vnode
  /\ doc' = Collected(m.doc)
  /\ domNode' = IF m.domNode = NoNode THEN NoNode
                ELSE IndexOf(Preorder(m.doc.nodes, Container), m.domNode) + 1
  /\ crashed' = m.threw
  /\ runs' = m.runs
  /\ obs' = m.obs

Init ==
  /\ pc = "start"
  /\ DiffIdle
  /\ LiveIdle
  /\ ReactiveIdle
  /\ WarnIdle
  /\ HIdle
  /\ NsIdle

Mounted == \E e \in 1..Len(effects) : effects[e].fn.kind = "update"

\* mount(rootComponent, container)
Mount ==
  /\ ~crashed
  /\ ~Mounted
  /\ \E comp \in Components :
       Becomes(effect(Machine, [kind |-> "update", comp |-> comp, prog |-> <<>>]))
  /\ written' = NoWrite
  /\ pc' = "mount"
  /\ UNCHANGED <<nsVars, warnVars, hVars, diffVars, oldProps, newProps, liveParent, liveEl>>

\* effect(fn) called by the application
Effect ==
  /\ ~crashed
  /\ Cardinality({e \in 1..Len(effects) : effects[e].fn.kind = "program"}) < MaxEffects
  /\ \E prog \in Programs :
       Becomes(effect(Machine, [kind |-> "program", comp |-> "", prog |-> prog]))
  /\ written' = NoWrite
  /\ pc' = "effect"
  /\ UNCHANGED <<nsVars, warnVars, hVars, diffVars, oldProps, newProps, liveParent, liveEl>>

\* state[key] = value written by the application, outside any effect
Write ==
  /\ ~crashed
  /\ \E key \in Keys, value \in Vals :
       /\ Becomes(set(Machine, key, value))
       /\ written' = [key |-> key, value |-> value, changed |-> target[key] # value]
  /\ pc' = "write"
  /\ UNCHANGED <<nsVars, warnVars, hVars, diffVars, oldProps, newProps, liveParent, liveEl>>

Next == Mount \/ Effect \/ Write

Spec == Init /\ [][Next]_vars

----------------------------------------------------------------------------
(* The mounted output reflects the state *)

\* the component of the render effect
MountedComponent ==
  LET e == CHOOSE e \in 1..Len(effects) : effects[e].fn.kind = "update"
  IN  effects[e].fn.comp

\* rootComponent() on the store t, read outside any effect
View(comp, t) ==
  rootComponent([Machine EXCEPT !.target = t, !.currentEffect = NoEffect], comp).out

\* the live tree under the container is the materialised rootComponent()
Reflects ==
  /\ Len(doc.nodes[Container].childNodes) = 1
  /\ Shape(doc.nodes, doc.nodes[Container].childNodes[1])
       = ShapeOfVNode(View(MountedComponent, target))

\* the component's sibling keys are pairwise distinct on every state
UniqueKeyed(comp) == \A t \in [Keys -> Vals] : DistinctKeys(View(comp, t))

----------------------------------------------------------------------------
(* Effects and writes *)

\* the effect's function writes no property
ReadsOnly(fn) == \A j \in 1..Len(fn.prog) : fn.prog[j].op \notin {"set", "setIf"}

\* effect e is subscribed to key
Subscribed(e, key) == \E j \in 1..Len(deps[key]) : deps[key][j] = e

\* C18: for a store and a single effect that reads key k and performs no
\* writes, a write to k of a value different from the stored one causes
\* exactly one run of the effect before the write returns, and a write of a
\* value equal to the stored one causes no run and leaves every subscriber
\* set unchanged.
C18_OneRunPerChange ==
  [][ (pc' = "write" /\ Len(effects) = 1 /\ ReadsOnly(effects[1].fn)) =>
        /\ ~crashed'
        /\ (written'.changed /\ Subscribed(1, written'.key)) => runs'[1] = 1
        /\ ~written'.changed => (runs'[1] = 0 /\ deps' = deps) ]_vars

\* a changing write to the key the only effect, a reader, has read
C18_Witness ==
  /\ pc = "write"
  /\ Len(effects) = 1
  /\ effects[1].fn.kind = "program"
  /\ ReadsOnly(effects[1].fn)
  /\ written.changed
  /\ Subscribed(1, written.key)
  /\ runs[1] = 1

\* the function that reads x only when flag is true
ReadsXIfFlag == <<Ins("get", "flag", 0), Ins("getIf", "x", 0)>>

\* C19: an effect that reads x only when flag is true is not re-run by
\* writes to x once flag has been written false and the effect has run after
\* that write; after flag is written true again, writes to x re-run it.
C19_ConditionalDependency ==
  [][ (pc' = "write" /\ ~crashed' /\ written'.key = "x" /\ written'.changed) =>
        \A e \in 1..Len(effects) :
          effects[e].fn.prog = ReadsXIfFlag =>
            /\ target["flag"] = 0 => runs'[e] = 0
            /\ target["flag"] # 0 => runs'[e] >= 1 ]_vars

\* x is written while flag is false and the conditional effect stays
\* subscribed to flag only
C19_Witness ==
  /\ pc = "write"
  /\ ~crashed
  /\ written.key = "x"
  /\ written.changed
  /\ target["flag"] = 0
  /\ target["x"] = 0
  /\ \E e \in 1..Len(effects) :
       /\ effects[e].fn.prog = ReadsXIfFlag
       /\ runs[e] = 0
       /\ Subscribed(e, "flag")
       /\ ~Subscribed(e, "x")

\* the function that reads x and writes another value to it
WritesOwnKey == <<Ins("get", "x", 0), Ins("add", "", 1), Ins("set", "x", 0)>>

\* effect e was registered, or x was changed from outside, by the step
RegistersOrChangesX(e) ==
  \/ pc' = "effect" /\ e = Len(effects')  /\ Len(effects') = Len(effects) + 1
  \/ pc' = "write" /\ written'.key = "x" /\ written'.changed /\ e <= Len(effects)

WritesNot(fn, key) ==
  \A j \in 1..Len(fn.prog) : ~(fn.prog[j].op \in {"set", "setIf"} /\ fn.prog[j].key = key)

----------------------------------------------------------------------------
(* Registration *)

\* the keys the function of an effect reads on some run
ReadKeys(fn) ==
  {fn.prog[j].key : j \in {i \in 1..Len(fn.prog) : fn.prog[i].op \in {"get", "getIf"}}}

\* the step registered an effect: effect(fn) or mount() was called
Registers == pc' \in {"effect", "mount"} /\ Len(effects') = Len(effects) + 1

\* a run needs a changed write: an effect that was registered before the step
\* and ran in it was subscribed to a key the step changed, and an effect
\* registered by the step that ran twice reads a key the step changed
RunsOnlyOnChange ==
  /\ \A e \in 1..Len(effects) :
       runs'[e] >= 1 => SubscribedKeys(deps, e) \cap obs'.changed # {}
  /\ (pc' = "effect" /\ runs'[Len(effects')] >= 2) =>
       ReadKeys(effects'[Len(effects')].fn) \cap obs'.changed # {}

\* the function of a registered program is subscribed to the key it reads
\* first
FirstReadSubscribed ==
  pc' = "effect" =>
    \E j \in 1..Len(deps'[effects'[Len(effects')].fn.prog[1].key]) :
      deps'[effects'[Len(effects')].fn.prog[1].key][j] = Len(effects')

\* C21 as stated: effect(fn) runs fn exactly once before it returns, with the
\* reads of that run subscribed to the new effect, and runs fn again only
\* when a key it is subscribed to is written with a changed value.
C21_RegistrationRunsOnce ==
  [][ /\ (Registers /\ ~crashed') => (runs'[Len(effects')] = 1 /\ FirstReadSubscribed)
      /\ RunsOnlyOnChange ]_vars

\* no effect but e writes a key the function of e reads
NoOtherWrites(es, e) ==
  \A o \in 1..Len(es) : o # e => \A k \in ReadKeys(es[e].fn) : WritesNot(es[o].fn, k)

\* C21 when fn writes nothing or no other effect writes a key fn reads:
\* effect(fn) runs fn exactly once before it returns, with the reads of that
\* run subscribed to the new effect; in every case it runs fn at least once,
\* and fn runs again only when a key it is subscribed to is written with a
\* changed value.
C21_RegistrationRunsOnceUnlessWrittenTo ==
  [][ /\ (Registers /\ ~crashed') =>
           /\ runs'[Len(effects')] >= 1
           /\ ( \/ ReadsOnly(effects'[Len(effects')].fn)
                \/ NoOtherWrites(effects', Len(effects')) ) =>
                (runs'[Len(effects')] = 1 /\ FirstReadSubscribed)
      /\ RunsOnlyOnChange ]_vars

\* a writing function was registered next to another effect, which its
\* write ran; it ran once itself and is subscribed to what it read
C21_Witness ==
  /\ pc = "effect"
  /\ ~crashed
  /\ Len(effects) >= 2
  /\ ~ReadsOnly(effects[Len(effects)].fn)
  /\ NoOtherWrites(effects, Len(effects))
  /\ runs[Len(effects)] = 1
  /\ \E o \in 1..(Len(effects) - 1) : runs[o] >= 1
  /\ SubscribedKeys(deps, Len(effects)) # {}

----------------------------------------------------------------------------
(* Writes are not batched *)

\* C22: writes are not batched: each write made outside any effect that
\* changes the value of a key an effect reads runs that effect inside the
\* write, the run starting and completing before the write returns and so
\* before the next write starts; when no effect writes, that is exactly one
\* run per write, n runs for n consecutive writes.
C22_WritesNotBatched ==
  [][ (pc' = "write" /\ written'.changed /\ ~crashed') =>
        /\ currentEffect' = NoEffect
        /\ \A e \in 1..Len(effects) :
             Subscribed(e, written'.key) =>
               /\ runs'[e] >= 1
               /\ (\A o \in 1..Len(effects) : ReadsOnly(effects[o].fn)) => runs'[e] = 1 ]_vars

\* x, written 1 before, is written 0 from outside: the second changing write
\* of x in a row ran both reading effects once more
C22_Witness ==
  /\ pc = "write"
  /\ ~crashed
  /\ written = [key |-> "x", value |-> 0, changed |-> TRUE]
  /\ Len(effects) = 2
  /\ \A e \in 1..Len(effects) : ReadsOnly(effects[e].fn) /\ runs[e] = 1
  /\ currentEffect = NoEffect

----------------------------------------------------------------------------
(* Every subscriber is notified *)

\* C23: when several effects are subscribed to the same key, a write that
\* changes that key's value, made from outside or inside an effect, runs
\* every one of them (other than the one active during the write) at least
\* once before the write returns.
C23_EverySubscriberRuns ==
  [][ ~crashed' =>
        /\ obs'.notified
        /\ (pc' = "write" /\ written'.changed) =>
             \A e \in 1..Len(effects) : Subscribed(e, written'.key) => runs'[e] >= 1 ]_vars

\* x is written from outside; the effect subscribed to x writes y, to which
\* the render effect and another effect are subscribed: each write of the
\* cascade ran the subscribers of its key
C23_Witness ==
  /\ pc = "write"
  /\ ~crashed
  /\ written.key = "x"
  /\ written.changed
  /\ "y" \in obs.changed
  /\ obs.notified
  /\ Len(effects) = 3
  /\ Cardinality({e \in 1..Len(effects) : Subscribed(e, "y")}) = 2
  /\ \A e \in 1..Len(effects) : runs[e] >= 1

----------------------------------------------------------------------------
(* The diagnostics over successive renders: diffChildren is called again    *)
(* and again in one process, the old list of a call being the new list of   *)
(* the call before.                                                         *)

\* sibling candidates: a text node, a keyed element whose own children are a
\* keyless list, and an unkeyed element whose own children are mixed
WarnItems ==
  { createTextVNode("A"),
    h("li", <<keyProp(Str("a"))>>, <<createTextVNode("A"), createTextVNode("B")>>),
    h("ul", <<>>, <<h("li", <<keyProp(Str("a"))>>, <<>>), createTextVNode("A")>>) }

InitWarn ==
  /\ pc = "start"
  /\ DiffIdle
  /\ LiveIdle
  /\ ReactiveIdle
  /\ WarnIdle
  /\ HIdle
  /\ NsIdle

\* the flags and the console as the call finds them
Flags ==
  [warnedMixedKeys |-> warnedMixedKeys, warnedNoKeys |-> warnedNoKeys,
   console |-> console, threw |-> FALSE]

\* the flags and the console as the call leaves them
Warned(c) ==
  /\ warnedMixedKeys' = c.warnedMixedKeys
  /\ warnedNoKeys' = c.warnedNoKeys
  /\ console' = c.console
  /\ pc' = IF c.threw THEN "threw" ELSE "diffChildren"

\* diffChildren(previous list, nc)
DiffChildrenNext ==
  /\ pc # "threw"
  /\ \E nc \in SeqsUpTo(WarnItems, MaxKids) :
       /\ oldChildren' = newChildren
       /\ newChildren' = nc
       /\ childPatches' = diffChildren(newChildren, nc)
       /\ Warned(diffChildrenWarns(Flags, newChildren, nc))
  /\ UNCHANGED <<nsVars, oldVNode, newVNode, patchObj, liveVars, reactiveVars, hVars>>

NextWarn == DiffChildrenNext

SpecWarn == InitWarn /\ [][NextWarn]_vars

\* how often message was printed
Printed(message) == Cardinality({j \in 1..Len(console) : console[j] = message})

\* some but not all of the siblings carry a key
MixedKeys(children) ==
  keyedCount(children) > 0 /\ keyedCount(children) # Len(children)

\* more than one sibling, none with a key
NoKeys(children) == keyedCount(children) = 0 /\ Len(children) > 1

\* C24: over any sequence of diffChildren calls in one process, each of the
\* two diagnostics (mixed keyed/unkeyed siblings; keyless list with more than
\* one child) is emitted at most once, never as a thrown error, and the call
\* that meets the anomaly still returns the positional patch list, whether
\* or not it emits the diagnostic.
C24_DiagnosticsOnce ==
  /\ pc # "threw"
  /\ Printed(MixedKeysMessage) <= 1
  /\ Printed(NoKeysMessage) <= 1
  /\ Len(console) = Printed(MixedKeysMessage) + Printed(NoKeysMessage)
  /\ (pc = "diffChildren" /\ (MixedKeys(newChildren) \/ NoKeys(newChildren))) =>
       childPatches =
         [keyed |-> FALSE,
          patches |-> [j \in 1..Max(Len(oldChildren), Len(newChildren)) |->
                         diff(At(oldChildren, j - 1), At(newChildren, j - 1))]]

\* a list of mixed siblings follows a list of mixed siblings, and a keyless
\* list has been met as well: both diagnostics are on the console, once each
C24_Witness ==
  /\ pc = "diffChildren"
  /\ MixedKeys(oldChildren)
  /\ MixedKeys(newChildren)
  /\ Len(newChildren) = 2
  /\ ~childPatches.keyed
  /\ Len(childPatches.patches) = 2
  /\ Printed(MixedKeysMessage) = 1
  /\ Printed(NoKeysMessage) = 1

----------------------------------------------------------------------------
(* h on arbitrary arguments.                                                *)
(* A child argument is a vnode, a string, a number, a boolean, null,        *)
(* undefined, or an array of such; props is an object Obj(ref, pairs), null *)
(* or undefined.                                                            *)

\* the value is a vnode (the only records of the model without a t field)
IsVNode(v) == "t" \notin DOMAIN v

\* typeof v
typeOf(v) ==
  IF IsVNode(v) THEN "object"
  ELSE IF v.t \in {"null", "array"} THEN "object"
  ELSE v.t

RECURSIVE flat(_)

\* children.flat(Infinity)
flat(children) ==
  IF children = <<>> THEN <<>>
  ELSE (IF ~IsVNode(Head(children)) /\ Head(children).t = "array"
        THEN flat(Head(children).items) ELSE <<Head(children)>>)
       \o flat(Tail(children))

\* child => typeof child === 'object' ? child : createTextVNode(child)
coerce(child) ==
  IF typeOf(child) = "object" THEN child ELSE createTextVNode(StringOf(child))

\* h(type, props, ...children); h above is this function on a props object
\* and children that are vnodes
hOf(type, props, children) ==
  [type |-> type,
   props |-> IF Truthy(props) THEN props.m ELSE <<>>,
   children |-> [j \in 1..Len(flat(children)) |-> coerce(flat(children)[j])],
   text |-> ""]

\* the child arguments of the model
ChildValues ==
  { Str("a"), Str(""), Num(0), Num(1), Bool(TRUE), Bool(FALSE), NullVal, Undefined,
    createTextVNode("A"),
    h("li", <<>>, <<>>),
    Arr(<<>>),
    Arr(<<NullVal>>),
    Arr(<<Str("a"), Arr(<<Num(1), Arr(<<Bool(FALSE)>>)>>)>>),
    Arr(<<h("li", <<>>, <<>>), Arr(<<createTextVNode("B")>>)>>) }

PropsValues == {Undefined, NullVal, Obj(1, <<>>), Obj(1, <<classProp("completed")>>)}

InitH ==
  /\ pc = "start"
  /\ DiffIdle
  /\ LiveIdle
  /\ ReactiveIdle
  /\ WarnIdle
  /\ NsIdle
  /\ hArgs \in [type : {"div"}, props : PropsValues,
                children : SeqsUpTo(ChildValues, MaxKids)]
  /\ hResult = NoVNode

\* h(type, props, ...children)
H ==
  /\ pc = "start"
  /\ hResult' = hOf(hArgs.type, hArgs.props, hArgs.children)
  /\ pc' = "h"
  /\ UNCHANGED <<nsVars, hArgs, diffVars, liveVars, reactiveVars, warnVars>>

NextH == H

SpecH == InitH /\ [][NextH]_vars

\* the values other than arrays among children and, at any depth, inside
\* its arrays, in their order
RECURSIVE Leaves(_)
Leaves(children) ==
  IF children = <<>> THEN <<>>
  ELSE LET first == children[1]
           rest == SubSeq(children, 2, Len(children))
       IN  IF IsVNode(first) THEN <<first>> \o Leaves(rest)
           ELSE IF first.t = "array" THEN Leaves(first.items \o rest)
           ELSE <<first>> \o Leaves(rest)

\* a well-formed TreeNode: TEXT with a text and no children, or an element
IsTreeNode(v) ==
  /\ DOMAIN v = {"type", "props", "children", "text"}
  /\ v.type = "TEXT" => (v.children = <<>> /\ v.props = <<>>)

\* the TEXT node a value that is no TreeNode becomes
TextOf(v) ==
  [type |-> "TEXT", props |-> <<>>, children |-> <<>>,
   text |-> CASE v.t = "string" -> v.s
              [] v.t = "number" -> NumStr(v.n)
              [] v.t = "boolean" -> (IF v.b THEN "true" ELSE "false")
              [] v.t = "null" -> "null"
              [] v.t = "undefined" -> "undefined"]

\* C25: h(type, props, ...children) returns a node whose children are the
\* child arguments flattened to any nesting depth in their original order,
\* every one of which is a well-formed TreeNode: each non-TreeNode child
\* value (string, number, boolean, null, undefined) becomes a TEXT node with
\* text String(value) and no children, and absent props become an empty
\* attribute mapping.
C25_ChildrenFlattenedAndCoerced ==
  pc = "h" =>
    /\ Len(hResult.children) = Len(Leaves(hArgs.children))
    /\ \A j \in 1..Len(hResult.children) :
         /\ IsTreeNode(hResult.children[j])
         /\ hResult.children[j] =
              IF IsVNode(Leaves(hArgs.children)[j]) THEN Leaves(hArgs.children)[j]
              ELSE TextOf(Leaves(hArgs.children)[j])
    /\ hArgs.props \in {Undefined, NullVal} => hResult.props = <<>>
    /\ hArgs.props \notin {Undefined, NullVal} => hResult.props = hArgs.props.m

----------------------------------------------------------------------------
(* Subscriptions and reads *)

\* C26 as stated: after any run of an effect completes, for any number of
\* effects and for runs started by registration, by an external write or by
\* a write made inside another effect, the set of keys whose subscriber set
\* contains the effect is exactly the set of keys the effect read during
\* that run.
C26_SubscribedIsRead == obs.exact

\* C26 for runs during which the same effect is not started again: after
\* such a run completes, whether started by registration, by an external
\* write or by a write made inside another effect, the set of keys whose
\* subscriber set contains the effect is exactly the set of keys the effect
\* read during that run.
C26_SubscribedIsReadUnlessRestarted == obs.exactOnce

\* the function that clears x when y is set
ClearsXIfY == <<Ins("get", "y", 0), Ins("setIf", "x", 0)>>

\* x is written from outside; the effect that copies x to y runs, and its
\* write runs the effect that reads y, inside it; after each run the effect
\* is subscribed to what it read
C26_Witness ==
  /\ pc = "write"
  /\ ~crashed
  /\ written.key = "x"
  /\ written.changed
  /\ "y" \in obs.changed
  /\ obs.exact
  /\ \E e \in 1..Len(effects) :
       /\ effects[e].fn.prog = ClearsXIfY
       /\ runs[e] >= 1
       /\ SubscribedKeys(deps, e) = {"y"}

----------------------------------------------------------------------------
(* The dependency index *)

\* C27: in every reachable state, and whenever a run starts or completes,
\* the two halves of the dependency index agree: an effect e is a member of
\* the subscriber set of key k if and only if that subscriber set is
\* recorded in e's own dependency list.
C27_IndexHalvesAgree ==
  /\ IndexAgrees(deps, effects)
  /\ obs.agree

\* a write has re-run effects: one that reads two keys is in both
\* subscriber sets, and the conditional reader, run again with flag false,
\* has left the subscriber set of x
C27_Witness ==
  /\ pc = "write"
  /\ ~crashed
  /\ written.changed
  /\ Len(effects) = 2
  /\ \E e \in 1..Len(effects) :
       /\ effects[e].fn.prog = ReadsXIfFlag
       /\ runs[e] >= 1
       /\ effects[e].deps = <<"flag">>
       /\ SubscribedKeys(deps, e) = {"flag"}
  /\ \E e \in 1..Len(effects) :
       /\ runs[e] >= 1
       /\ Cardinality(SubscribedKeys(deps, e)) = 2
       /\ Len(effects[e].deps) = 2

----------------------------------------------------------------------------
(* The value a notified effect reads *)

\* C28 as stated: the written value is stored before any subscriber is
\* notified: whenever an effect is re-run because of a write to key k, a
\* read of k inside that run returns the newly written value.
C28_ReadsWrittenValue == obs.fresh

\* C28 with the writes in between taken into account: the written value is
\* stored before any subscriber is notified: whenever an effect is re-run
\* because of a write to key k, a read of k inside that run returns the
\* newly written value, unless k has been written again since that write.
C28_ReadsWrittenValueUnlessRewritten == obs.freshLatest

\* x is written from outside and the effect that copies x to y reads the
\* written value: y has it when the write returns
C28_Witness ==
  /\ pc = "write"
  /\ ~crashed
  /\ written.key = "x"
  /\ written.changed
  /\ obs.fresh
  /\ target["x"] = written.value
  /\ target["y"] = written.value
  /\ "y" \in obs.changed
  /\ \E e \in 1..Len(effects) :
       /\ effects[e].fn.prog = <<Ins("get", "x", 0), Ins("set", "y", 0)>>
       /\ runs[e] = 1

----------------------------------------------------------------------------
(* Mutually dependent properties *)

\* A: state.y = state.x
CopiesXToY == <<Ins("get", "x", 0), Ins("set", "y", 0)>>

\* B: state.x = state.y + 1
BumpsYIntoX == <<Ins("get", "y", 0), Ins("add", "", 1), Ins("set", "x", 0)>>

\* A and B are the two registered effects besides the render effect
MutuallyDependent(es) ==
  /\ \E a \in 1..Len(es) : es[a].fn.prog = CopiesXToY
  /\ \E b \in 1..Len(es) : es[b].fn.prog = BumpsYIntoX
  /\ Cardinality({e \in 1..Len(es) : es[e].fn.kind = "program"}) = 2

\* C29: with two effects where A reads x and writes y and B reads y and
\* writes x, each write changing the stored value, a single external write
\* to x starts a chain of re-runs that does not terminate: neither the store
\* nor the scheduler detects or bounds it, and it ends only when the call
\* stack is exhausted.
C29_MutualWritesDiverge ==
  [][ ( /\ pc' = "write"
        /\ written'.key = "x"
        /\ written'.changed
        /\ MutuallyDependent(effects)
        /\ target["y"] # written'.value ) => crashed' ]_vars

\* x was written from outside with A and B registered: the runs of A and B
\* nested until the stack was exhausted
C29_Witness ==
  /\ pc = "write"
  /\ crashed
  /\ written.key = "x"
  /\ written.changed
  /\ Len(effects) = 2
  /\ MutuallyDependent(effects)
  /\ runs[1] + runs[2] >= MaxDepth
  /\ runs[1] >= 2
  /\ runs[2] >= 2

----------------------------------------------------------------------------
(* Patching with an identical tree, checked under SpecPatch *)

\* the vnode has a child list of the given form (keyed or positional) with
\* at least two children
HasList(vn, keyed) ==
  /\ Len(vn.children) >= 2
  /\ diffChildren(vn.children, vn.children).keyed = keyed

\* the live tree is as the first render left it, no DOM call was made since
\* and patch returned the node it was given
Untouched ==
  /\ ~doc.threw
  /\ doc.log = Materialise(oldVNode).log
  /\ doc.nodes = Materialise(oldVNode).nodes
  /\ domNode = Materialise(oldVNode).ret

----------------------------------------------------------------------------
(* Event listeners: a live button is given SET_PROP and REMOVE_PROP patches *)
(* for its event attributes, one UPDATE patch after another.                *)

\* the longest log of DOM calls after which no further patch is applied
MaxLog == 12

\* the values a SET_PROP patch for the attribute carries: two handlers, and
\* the null and undefined of a handler that is switched off
HandlerValues == {Fn(1), Fn(2), NullVal, Undefined}

\* the event attributes of the button
EventKeys == {"onClick", "onInput"}

\* the prop patches for an event attribute
EventPatches ==
  {[type |-> "SET_PROP", key |-> k, value |-> v] : k \in EventKeys, v \in HandlerValues}
    \cup {[type |-> "REMOVE_PROP", key |-> k] : k \in EventKeys}

\* a button created by createElement with or without a handler
InitListeners ==
  /\ pc = "start"
  /\ DiffIdle
  /\ oldProps \in {<<>>, <<[key |-> "onClick", value |-> Fn(1)]>>}
  /\ newProps = oldProps
  /\ doc = Materialise(h("button", oldProps, <<>>))
  /\ domNode = doc.ret
  /\ liveParent = Container
  /\ liveEl = doc.ret
  /\ ReactiveIdle
  /\ WarnIdle
  /\ HIdle
  /\ NsIdle

\* the UPDATE branch of patch applying the prop patches of one patch object;
\* newProps keeps the value each attribute was given last
ApplyPropPatches ==
  /\ pc \in {"start", "listeners"}
  /\ Len(doc.log) < MaxLog
  /\ \E p \in EventPatches :
       /\ patchObj' = [type |-> "UPDATE", propPatches |-> <<p>>,
                       childPatches |-> [keyed |-> FALSE, patches |-> <<>>]]
       /\ doc' = applyPropPatchesFrom(doc, domNode, <<p>>, 0)
       /\ newProps' = IF p.type = "SET_PROP"
                      THEN PutPair(newProps, p.key, p.value)
                      ELSE DelPair(newProps, p.key)
  /\ pc' = "listeners"
  /\ UNCHANGED <<nsVars, warnVars, hVars, oldVNode, newVNode, oldChildren, newChildren,
                 childPatches, oldProps, domNode, liveParent, liveEl,
                 reactiveVars>>

NextListeners == ApplyPropPatches

SpecListeners == InitListeners /\ [][NextListeners]_vars

\* the value the attribute was given last, by a SET patch or by
\* createElement (undefined: none, or the last patch was an UNSET)
LatestHandler(key) ==
  IF HasProp(newProps, key) THEN GetProp(newProps, key) ELSE Undefined

\* the listeners of the live node for the attribute's event
ListenersFor(key) ==
  SelectSeq(doc.nodes[domNode].listeners, LAMBDA l : l.event = EventNameOf(key))

\* C31: after any sequence of SET and UNSET patches for one event attribute
\* (name starting with "on") on a live node, the node has at most one
\* listener registered for that attribute: the most recently set handler, or
\* none when the last patch was an UNSET; an earlier handler is never left
\* attached.
C31_OnlyLatestListener ==
  /\ ~doc.threw
  /\ \A key \in EventKeys :
       ListenersFor(key) =
         IF LatestHandler(key).t = "function"
         THEN <<[event |-> EventNameOf(key), fn |-> LatestHandler(key)]>>
         ELSE <<>>

\* a handler was replaced by another and that one by the first again, after
\* which only the last one listens
C31_Witness ==
  /\ pc = "listeners"
  /\ patchObj.propPatches[1] = [type |-> "SET_PROP", key |-> "onClick", value |-> Fn(1)]
  /\ Cardinality({j \in 1..Len(doc.log) :
                    doc.log[j].op = "removeEventListener"}) >= 2
  /\ Cardinality({j \in 1..Len(doc.log) :
                    doc.log[j].op = "addEventListener"}) >= 3
  /\ ListenersFor("onClick") = <<[event |-> "click", fn |-> Fn(1)]>>

----------------------------------------------------------------------------
(* Namespaces: a tree of nested elements is materialised by createElement   *)
(* and a patch then creates one more element under its innermost element.   *)

\* the deepest nesting of the live parent
MaxNesting == 3

Lineages == UNION {[1..n -> NsTypes] : n \in 1..MaxNesting}

\* createElement(root) has materialised the nested elements
InitNs ==
  /\ pc = "start"
  /\ DiffIdle
  /\ LiveIdle
  /\ ReactiveIdle
  /\ WarnIdle
  /\ HIdle
  /\ lineage \in Lineages
  /\ parentEl = elementAt(lineage, Len(lineage))
  /\ created = [via |-> "none"]

\* patch(parent, undefined, null, vnode): the CREATE branch
PatchCreate ==
  /\ pc = "start"
  /\ \E type \in NsTypes :
       created' = [via |-> "CREATE", type |-> type,
                   el |-> createElementOf(type, inferredChildNs(parentEl))]
  /\ pc' = "ns"
  /\ UNCHANGED <<diffVars, liveVars, reactiveVars, warnVars, hVars, lineage, parentEl>>

\* patch(parent, el, oldVNode, newVNode) for vnodes of different types: the
\* REPLACE branch
PatchReplace ==
  /\ pc = "start"
  /\ \E type \in NsTypes :
       created' = [via |-> "REPLACE", type |-> type,
                   el |-> createElementOf(type, inferredChildNs(parentEl))]
  /\ pc' = "ns"
  /\ UNCHANGED <<diffVars, liveVars, reactiveVars, warnVars, hVars, lineage, parentEl>>

\* patchKeyedChildren(parent, ...) for a new child without an old one
KeyedCreate ==
  /\ pc = "start"
  /\ \E type \in NsTypes :
       created' = [via |-> "keyed", type |-> type,
                   el |-> createElementOf(type, inferredChildNs(parentEl))]
  /\ pc' = "ns"
  /\ UNCHANGED <<diffVars, liveVars, reactiveVars, warnVars, hVars, lineage, parentEl>>

NextNs == PatchCreate \/ PatchReplace \/ KeyedCreate

SpecNs == InitNs /\ [][NextNs]_vars

\* C32: a node created during patching (CREATE, REPLACE or keyed creation)
\* under a given live parent is created in the same namespace that
\* createElement gives it as a child of that parent during initial
\* materialisation: SVG or MathML inside an svg/math subtree, and HTML for
\* children of a foreignObject.
C32_PatchNamespaceAsCreateElement ==
  pc = "ns" =>
    created.el = createElementOf(created.type, childNsAt(lineage, Len(lineage)))

----------------------------------------------------------------------------
(* Calls of an effect while it is running *)

\* C33 as stated: at no time is an effect's function invoked while an
\* earlier invocation of the same effect has not yet returned, for any
\* number of effects and for writes made inside effects (not only for an
\* effect's write to its own key).
C33_NeverReentered == obs.alone

\* C33 for the innermost invocation: at no time is an effect's function
\* invoked while an earlier invocation of the same effect is the innermost
\* one that has not yet returned, for any number of effects and for writes
\* made inside effects.
C33_NeverReenteredWhileInnermost == obs.notInnermost

\* an effect writing the key it reads is registered beside another effect
\* and a write by the application has changed that key and run it
C33_Witness ==
  /\ pc = "write"
  /\ ~crashed
  /\ written.changed
  /\ written.key = "x"
  /\ Len(effects) >= 2
  /\ \E e \in 1..Len(effects) :
       /\ effects[e].fn.kind = "program"
       /\ effects[e].fn.prog = WritesOwnKey
       /\ Subscribed(e, "x")
       /\ runs[e] >= 1

----------------------------------------------------------------------------
(* The subscribers a write runs *)

\* C34 as stated: when a write to key k re-runs its subscribers, every
\* effect it invokes is subscribed to k at the moment of its invocation: an
\* effect that dropped k earlier in the same cascade (because it was re-run
\* meanwhile and no longer reads k) is not run again for that write.
C34_SubscribedWhenInvoked == obs.subscribed

\* C34 for the moment of the write: when a write to key k re-runs its
\* subscribers, every effect it invokes was subscribed to k at the moment
\* of the write.
C34_SubscribedWhenWritten == obs.wasSubscribed

\* a write ran an effect that had dropped the written key earlier in the
\* same cascade
C34_Witness ==
  /\ pc = "write"
  /\ ~crashed
  /\ written.changed
  /\ ~obs.subscribed
  /\ \E e \in 1..Len(effects) : runs[e] >= 2 /\ ~Subscribed(e, written.key)

----------------------------------------------------------------------------
(* The reactive store on its own: effects are registered and the            *)
(* application writes and reads properties, without a mounted component.    *)

\* effect functions that read a property after they have written one
\*   state.y = state.x; state.flag
\*   state.x = state.flag; if (state.flag) state.y
ResumingPrograms ==
  { <<Ins("get", "x", 0), Ins("set", "y", 0), Ins("get", "flag", 0)>>,
    <<Ins("get", "flag", 0), Ins("set", "x", 0), Ins("getIf", "y", 0)>> }

\* effect(fn) called by the application, fn reading after it has written
EffectResuming ==
  /\ ~crashed
  /\ Cardinality({e \in 1..Len(effects) : effects[e].fn.kind = "program"}) < MaxEffects
  /\ \E prog \in ResumingPrograms :
       Becomes(effect(Machine, [kind |-> "program", comp |-> "", prog |-> prog]))
  /\ written' = NoWrite
  /\ pc' = "effect"
  /\ UNCHANGED <<nsVars, warnVars, hVars, diffVars, oldProps, newProps, liveParent, liveEl>>

\* state[key] read by the application, outside any effect, also after a
\* call that threw
Read ==
  /\ \E key \in Keys : Becomes(get(Machine, key))
  /\ written' = NoWrite
  /\ pc' = "read"
  /\ UNCHANGED <<nsVars, warnVars, hVars, diffVars, oldProps, newProps, liveParent, liveEl>>

NextStore == Effect \/ EffectResuming \/ Write \/ Read

SpecStore == Init /\ [][NextStore]_vars

----------------------------------------------------------------------------
(* The active-computation slot *)

\* C36: the active-computation slot always names the innermost effect whose
\* function is currently executing and is empty whenever no effect is
\* executing, also after an effect's function throws; a read made while the
\* slot is empty adds no subscription.
C36_SlotNamesInnermost ==
  [][/\ obs'.slot
     /\ currentEffect' = NoEffect
     /\ pc' = "read" => (deps' = deps /\ effects' = effects)]_vars

\* a registration has thrown after nested runs as deep as the stack allows,
\* and the slot is empty
C36_Witness ==
  /\ crashed
  /\ Len(effects) = 2
  /\ runs[1] + runs[2] >= MaxDepth
  /\ currentEffect = NoEffect

----------------------------------------------------------------------------
(* Positional patching of a list that shrinks or grows, checked under       *)
(* SpecSiblings                                                             *)

\* the live child at index i of the old list has left the list
Removed(i) ==
  /\ doc.nodes[OldLive[i]].parent = NoNode
  /\ \A j \in 1..Len(doc.nodes[domNode].childNodes) :
       doc.nodes[domNode].childNodes[j] # OldLive[i]

\* the nodes for the new children beyond the old list are appended, in index
\* order, after the children at the indices of the old list
Appended ==
  LET live == doc.nodes[domNode].childNodes
  IN  \A j \in (Len(oldChildren) + 1)..Len(newChildren) :
        /\ Fresh(live[j])
        /\ Shape(doc.nodes, live[j]) = ShapeOfVNode(newChildren[j])
        /\ \A i \in 1..Len(oldChildren) : ~Fresh(live[i]) \/ live[i] < live[j]
        /\ \A k \in (Len(oldChildren) + 1)..(j - 1) : live[k] < live[j]

\* C37 as stated: in positional patching, when the new child list is
\* shorter than the old one exactly the live children at indices
\* |new|..|old|-1 are removed and the live children below |new| stay the same
\* nodes in the same order; when it is longer, the nodes for indices
\* |old|..|new|-1 are appended in index order after the existing children.
C37_PositionalTruncatesAndAppends ==
  pc = "positional" =>
    LET live == doc.nodes[domNode].childNodes
        n == Len(newChildren)
        o == Len(oldChildren)
    IN  /\ ~doc.threw
        /\ Len(live) = n
        /\ n < o => /\ \A i \in (n + 1)..o : Removed(i)
                    /\ \A i \in 1..n : live[i] = OldLive[i]
        /\ n > o => Appended

\* C37 with replacement in place: in positional patching, when the new
\* child list is shorter than the old one the live children at indices
\* |new|..|old|-1 are removed and the live children below |new| stay in the
\* same order, each the same node unless its vnode changes type, in which
\* case a new node takes its place; when it is longer, the nodes for
\* indices |old|..|new|-1 are appended in index order after the existing
\* children.
C37_PositionalTruncatesAndAppendsInPlace ==
  pc = "positional" =>
    LET live == doc.nodes[domNode].childNodes
        n == Len(newChildren)
        o == Len(oldChildren)
    IN  /\ ~doc.threw
        /\ Len(live) = n
        /\ n < o => /\ \A i \in (n + 1)..o : Removed(i)
                    /\ \A i \in 1..n :
                         IF oldChildren[i].type = newChildren[i].type
                         THEN live[i] = OldLive[i]
                         ELSE Fresh(live[i]) /\ Removed(i)
        /\ n > o => Appended

\* a list of three has lost its last two children and kept its first
C37_Witness ==
  /\ pc = "positional"
  /\ Len(oldChildren) = 3
  /\ Len(newChildren) = 1
  /\ oldChildren[1].type = newChildren[1].type
  /\ oldChildren[1] # newChildren[1]
  /\ doc.nodes[domNode].childNodes = <<OldLive[1]>>
  /\ Removed(2)
  /\ Removed(3)

----------------------------------------------------------------------------
(* A keyed list with a repeated key, checked under SpecPatch *)

\* every child of the list carries a key and two of them carry the same
RepeatsKey(children) ==
  /\ \A i \in 1..Len(children) : IsKeyed(children[i])
  /\ \E i, j \in 1..Len(children) : i # j /\ KeyOf(children[i]) = KeyOf(children[j])

\* C38: when an all-keyed new child list contains the same key more than
\* once, after the keyed patch is applied the parent's live child count
\* still equals |newChildren|, with one distinct live node per new child in
\* newChildren order.
C38_RepeatedKeyKeepsCount ==
  ( /\ pc = "patch"
    /\ patchObj.type = "UPDATE"
    /\ RepeatsKey(newVNode.children) )
  => LET live == doc.nodes[domNode].childNodes
     IN  /\ ~doc.threw
         /\ Len(live) = Len(newVNode.children)
         /\ \A i, j \in 1..Len(live) : i # j => live[i] # live[j]
         /\ \A j \in 1..Len(live) :
              Shape(doc.nodes, live[j]) = ShapeOfVNode(newVNode.children[j])

====
